---- MODULE Spec2Model ----
(***************************************************************************)
(* The sidecar process supervisor of file-organizer-desktop                *)
(* (src-tauri/src/main.rs): start / stop / update / download / status      *)
(* commands and the orphan reconnection run at application startup.        *)
(*                                                                         *)
(* Commands are async and run concurrently on the runtime's worker pool.   *)
(* The supervisor mutex is held only inside the blocks that the source     *)
(* brackets with state.lock(); every other statement group between two     *)
(* await points or lock acquisitions is one action of the model.           *)
(*                                                                         *)
(* The embedded inference service (src-tauri/src/embedded_llm_service.rs,  *)
(* embedded_llm.rs) is modelled beside it: the download registry with its  *)
(* background transfers (SpecDl) and the process-wide model cell with the  *)
(* load and infer requests of the blocking pool (SpecEm).                  *)
(***************************************************************************)
EXTENDS Integers, FiniteSets, Sequences, TLC

(* ---------------------------------------------------------------- bounds *)
MaxPid == 3            \* process ids the OS hands out
MaxVer == 2            \* release versions 1..MaxVer; version 1 is the one installed first
MaxOps == 2            \* commands invoked in one run
BodyLen == 2           \* bytes in the body a download's URL serves
MaxCalls == 3          \* load and infer requests the embedded service receives
MaxSpawns == 3         \* embedded services spawned in one run
MaxParts == 4          \* dot-separated components of a version string

DefaultPort == 8000

\* EmbeddedModel::infer's numbers.
GpuLayersForAcceleration == 33
CpuContextLength == 512
DefaultContextLength == 4096
CpuPromptChars == 400
GpuTokenCap == 150
CpuTokenCap == 50

Tasks == {1, 2}         \* two concurrent command invocations
Pids == 1..MaxPid
Versions == 1..MaxVer
NewVersions == 2..MaxVer  \* versions a download or update is asked for
Platforms == {"windows", "macos", "linux"}
DefaultCfg == [host |-> "127.0.0.1", port |-> DefaultPort]
AltCfg == [host |-> "0.0.0.0", port |-> DefaultPort + 1]
Configs == {DefaultCfg, AltCfg}

(* ------------------------------------------------------------ data model *)
\* Option<(Option<Child>, ServerProcessInfo)>; pid 0 stands for None.
NoRec == [pid |-> 0, cfg |-> DefaultCfg, owned |-> FALSE]
\* server.pid JSON {pid, port, host}; pid 0 stands for "no file".
NoPidFile == [pid |-> 0, cfg |-> DefaultCfg]
\* Content of a directory under llm-server/ (the install or its backup).
\*   absent  : the path does not exist
\*   partial : extraction began and did not complete
\*   noexe   : archive extracted, primary binary missing at the expected path
\*   full    : archive extracted and the primary binary is in place
NoDir == [kind |-> "absent", ver |-> 0]
DirOf(k, v) == [kind |-> k, ver |-> v]
\* An OS process table entry.
NoProc == [alive |-> FALSE, kind |-> "none", cfg |-> DefaultCfg, ver |-> 0]

VARIABLES
  platform,     \* target_os of the build
  rec,          \* the managed state (ManagedLLMState)
  pidFile,      \* llm-server/server.pid
  serverDir,    \* llm-server/<extract_dir>
  backupDir,    \* llm-server/<extract_dir>_backup
  versionFile,  \* llm-server/version.json (0: no file)
  proc,         \* OS process table
  nextPid,      \* next pid the OS hands out
  task,         \* command invocations: op, position, locals
  rc,           \* the orphan reconnection task
  ops,          \* commands invoked so far
  downloads,    \* InnerState.downloads: Vec<DownloadState>
  files,        \* the model directory: content of each target path
  dl,           \* download requests: handler and background task position, locals
  cell,         \* EMBEDDED_MODEL: OnceCell<Arc<Mutex<EmbeddedModel>>>
  lockBy,       \* holder of the cell's mutex (0: free)
  engines,      \* EmbeddedModel instances alive (constructed, not dropped)
  modelState,   \* InnerState.model: the recorded path (0: None)
  thr,          \* load, infer and status requests: position, locals
  calls,        \* load and infer requests received so far
  manager,      \* SERVICE_MANAGER.service: the retained service (0: None)
  services,     \* embedded services running (spawned, not shut down)
  spawns,       \* services spawned so far
  caller,       \* ensure_service invocations: position, locals
  latest,       \* what check_llm_server_latest_version answers
  install,      \* the install the version check looks at: executable, version.json
  verdict,      \* what check_llm_server_update returned
  inf           \* one call of EmbeddedModel::infer: configuration, arguments, locals

\* The supervisor's state (main.rs) and the embedded service's state
\* (embedded_llm_service.rs); neither component touches the other's.
supervisorVars == <<platform, rec, pidFile, serverDir, backupDir, versionFile,
                    proc, nextPid, task, rc, ops>>
downloadVars == <<downloads, files, dl>>
registryVars == <<cell, lockBy, engines, modelState, thr, calls>>
serviceVars == <<downloadVars, registryVars>>
managerVars == <<manager, services, spawns, caller>>
versionVars == <<latest, install, verdict>>
appVars == <<managerVars, versionVars, inf>>

vars == <<platform, rec, pidFile, serverDir, backupDir, versionFile, proc,
          nextPid, task, rc, ops, downloads, files, dl, cell, lockBy, engines,
          modelState, thr, calls, manager, services, spawns, caller, latest,
          install, verdict, inf>>

IdleTask ==
  [op |-> "none", pc |-> "idle", cfg |-> DefaultCfg, ver |-> 0,
   was |-> FALSE, child |-> 0, res |-> "none", sres |-> "none",
   rres |-> "none", dl |-> "none", phase |-> "none", pre |-> NoDir,
   fsf |-> FALSE, bak |-> FALSE, retry |-> FALSE, killed |-> "none",
   mark |-> FALSE, error |-> "none"]

IdleRc == [pc |-> "read", pid |-> 0, cfg |-> DefaultCfg, out |-> "none"]

(* ------------------------------------------------------- pure helpers *)
\* start_llm_server's single executable path, per platform.
StartExeExists(d) == d.kind = "full"

\* get_llm_server_status's candidate list. On Linux the second candidate,
\* server_dir/llama_server, is the extraction directory itself, so it exists
\* as soon as the directory does.
StatusExeExists(plat, d) ==
  IF plat = "linux" THEN d.kind # "absent" ELSE d.kind = "full"

\* Does an HTTP GET http://host:port/v1/models have a server to answer it?
Listening(c) ==
  \E p \in Pids : proc[p].alive /\ proc[p].kind = "sidecar" /\ proc[p].cfg = c

\* Outcomes of the bounded-timeout probe: a success status needs a live
\* sidecar on that endpoint; a timeout or error is always possible.
ProbeOutcomes(c) == IF Listening(c) THEN {"ok", "fail"} ELSE {"fail"}

\* is_process_running(pid)
IsProcessRunning(p) == p \in Pids /\ proc[p].alive

\* Mutant of RemovePidFile: the removal targets the wrong path and the file stays.
KeepPidFile == pidFile

\* remove_pid_file: the file is gone afterwards (the app data directory is
\* taken to be writable; the code discards fs::remove_file's result).
RemovePidFile == NoPidFile

(* ------------------------------------------- embedded service data model *)
Slots == {1, 2}                \* two download requests, in order of arrival
Paths == {0} \cup Slots        \* 0: the caller's target_name; i: model-<id i>.gguf

\* The body every URL serves; a file position never written reads as 0.
Body == [i \in 1..BodyLen |-> 1]

\* A SHA-256 digest as a hex string: which digest, and the case of its letters.
NoDigest == [hex |-> "none", upper |-> FALSE]
\* Option<String> sha256 of a DownloadRequest.
Checksums ==
  {NoDigest, [hex |-> "d_body", upper |-> FALSE],
   [hex |-> "d_body", upper |-> TRUE], [hex |-> "d_else", upper |-> FALSE]}

\* An anyhow error: its context, and the digests a checksum mismatch names.
ErrorOf(k) == [kind |-> k, expected |-> NoDigest, actual |-> NoDigest]
NoErr == ErrorOf("none")

NoFile == [exists |-> FALSE, data |-> <<>>]

\* A request slot before its request arrives.
IdleDl ==
  [pc |-> "idle", id |-> 0, target |-> 0, sha |-> NoDigest, downloaded |-> 0,
   off |-> 0, left |-> 0, err |-> NoErr, written |-> 0, opened |-> FALSE,
   returned |-> FALSE]

Threads == {1, 2}              \* two requests in flight on the blocking pool
ModelPaths == {1, 2}           \* model_path values

\* OnceCell::new(): nothing set.
EmptyCell == [set |-> FALSE, path |-> 0, engine |-> 0]

\* call: the request's number, which also names the engine it constructs.
\* seen: the model path of a status response (0: null); during: who held the
\* engine's lock when that response was produced.
IdleThr ==
  [op |-> "none", pc |-> "idle", call |-> 0, path |-> 0, eng |-> 0,
   res |-> "none", seen |-> 0, during |-> 0]

\* The downloads of a fresh ServiceState.
DownloadsAtRest ==
  /\ downloads = <<>>
  /\ files = [p \in Paths |-> NoFile]
  /\ dl = [s \in Slots |-> IdleDl]

\* A fresh process: EMBEDDED_MODEL unset, InnerState.model None.
RegistryAtRest ==
  /\ cell = EmptyCell /\ lockBy = 0 /\ engines = {}
  /\ modelState = 0
  /\ thr = [t \in Threads |-> IdleThr]
  /\ calls = 0

\* ServiceState::new(): no downloads; the model directory holds no file.
ServiceAtRest == DownloadsAtRest /\ RegistryAtRest

\* Commands of the application that reach the embedded service through
\* process_manager, running concurrently on the async runtime.
Callers == {1, 2}

\* handle: the ServiceHandle the invocation owns (0: none).
IdleCaller == [pc |-> "idle", handle |-> 0, res |-> "none"]

\* Option<String>::None among version strings, which are sequences of
\* characters.
NoVersion == <<"None">>

Digits == {"0", "1", "2"}

\* The components version strings are made of here: two numbers whose
\* order as numbers and as text differ, and one that is no number.
Components == {<<"2">>, <<"1", "0">>, <<"b">>}

RECURSIVE Join(_)
Join(parts) ==
  IF Len(parts) = 1 THEN parts[1]
  ELSE parts[1] \o <<".">> \o Join(Tail(parts))

\* "1.0.0"
FallbackVersion == <<"1", ".", "0", ".", "0">>

\* Version strings: up to MaxParts components joined by dots, with or
\* without a leading v; and 1.0.0, the first release.
VersionStrings ==
  {FallbackVersion} \cup
  UNION { { pre \o Join(parts) : pre \in {<<>>, <<"v">>},
                                  parts \in [1..n -> Components] }
          : n \in 1..MaxParts }

IdleVerdict ==
  [pc |-> "idle", current_version |-> NoVersion, latest_version |-> NoVersion,
   update_available |-> FALSE, compared |-> "not called"]

\* No version check: nothing installed, no release known.
VersionAtRest ==
  /\ latest = NoVersion
  /\ install = [exe |-> FALSE, stored |-> NoVersion]
  /\ verdict = IdleVerdict

\* ServiceManager::default(): no service; nothing spawned.
ManagerAtRest ==
  /\ manager = 0 /\ services = {} /\ spawns = 0
  /\ caller = [c \in Callers |-> IdleCaller]

\* Option<u32>::None among numbers.
None == 0 - 1

\* No inference is being computed. fed: the length of the prompt handed to
\* the session (None before that); n_ctx: the session's context length.
IdleInfer ==
  [pc |-> "idle", gpu_layers |-> None, context_length |-> None, prompt |-> 0,
   max_tokens |-> None, n_ctx |-> None, fed |-> None, budget |-> None,
   decoded_tokens |-> 0, res |-> "none"]

InferAtRest == inf = IdleInfer

AppAtRest == ManagerAtRest /\ VersionAtRest /\ InferAtRest

(* ------------------------------------------------------------------ Init *)
Boots == {"clean", "orphan_live", "orphan_dead", "orphan_foreign"}

Init ==
  /\ platform \in Platforms
  /\ rec = NoRec
  /\ backupDir = NoDir
  /\ \E inst \in {0, 1} :
       /\ serverDir = IF inst = 0 THEN NoDir ELSE DirOf("full", 1)
       /\ versionFile = inst
       /\ \E boot \in Boots, c \in Configs :
            /\ boot # "orphan_live" => c = DefaultCfg
            /\ pidFile = IF boot = "clean" THEN NoPidFile ELSE [pid |-> 1, cfg |-> c]
            /\ nextPid = IF boot = "clean" THEN 1 ELSE 2
            /\ proc = [p \in Pids |->
                 IF p # 1 \/ boot = "clean" THEN NoProc
                 ELSE IF boot = "orphan_live"
                   THEN [alive |-> TRUE, kind |-> "sidecar", cfg |-> c, ver |-> 1]
                 ELSE IF boot = "orphan_dead"
                   THEN [alive |-> FALSE, kind |-> "sidecar", cfg |-> c, ver |-> 1]
                 ELSE [alive |-> TRUE, kind |-> "foreign", cfg |-> c, ver |-> 0]]
  /\ task = [t \in Tasks |-> IdleTask]
  /\ rc = IdleRc
  /\ ops = 0
  /\ ServiceAtRest
  /\ AppAtRest

(* ----------------------------------------------------------- environment *)
\* A sidecar process exits on its own (crash, bind failure, ...).
ProcExit(p) ==
  /\ proc[p].alive /\ proc[p].kind = "sidecar"
  /\ proc' = [proc EXCEPT ![p].alive = FALSE]
  /\ UNCHANGED <<serviceVars, appVars, platform, rec, pidFile, serverDir, backupDir, versionFile,
                 nextPid, task, rc, ops>>

(* -------------------------------------------------------------- callers *)
\* A caller invokes a command when it has no invocation in flight. The two
\* callers are interchangeable, so caller 2 is taken to invoke second.
CanBegin(t) ==
  /\ task[t].pc \in {"idle", "ret"}
  /\ ops < MaxOps
  /\ t = 1 \/ task[1].op # "none"

\* The caller's previous command was a start that returned Ok.
AfterStartOk(t) == task[t].pc = "ret" /\ task[t].op = "start" /\ task[t].res = "ok"

\* The caller's previous command was a stop.
AfterStop(t) == task[t].pc = "ret" /\ task[t].op = "stop"

(* ------------------------------------------------------------------ stop *)
\* stop_llm_server's body, executed under the supervisor lock from
\* state_guard.take() to the return. killOk is the outcome of the pid-keyed
\* OS kill (taskkill /F /T, kill -9); an owned Child is killed and waited on.
ProcDeadAfterStop(r, killOk) == r.owned \/ killOk

\* Mutant of RecAfterStop: the record is read, not taken.
RecKept(r) == r

RecAfterStop(r) == NoRec

\* Mutant of ProcAfterStop: every process is killed, as a kill by name would.
ProcAllKilled(r, killOk) == [p \in Pids |-> [proc[p] EXCEPT !.alive = FALSE]]

ProcAfterStop(r, killOk) ==
  IF r.pid # 0 /\ ProcDeadAfterStop(r, killOk)
    THEN [proc EXCEPT ![r.pid].alive = FALSE]
    ELSE proc

\* Mutant of PidFileAfterStop: the cleanup of the PID file is left out.
PidFileKept(r, pf) == pf

PidFileAfterStop(r, pf) == IF r.pid # 0 THEN RemovePidFile ELSE pf

\* What the post-kill is_process_running check finds.
StopVerdict(r, killOk) ==
  IF r.pid = 0 THEN "norec"
  ELSE IF ProcAfterStop(r, killOk)[r.pid].alive THEN "alive" ELSE "dead"

StopEffect(killOk) ==
  /\ rec' = RecAfterStop(rec)
  /\ proc' = ProcAfterStop(rec, killOk)
  /\ pidFile' = PidFileAfterStop(rec, pidFile)

StopBegin(t) ==
  /\ CanBegin(t)
  /\ task' = [task EXCEPT ![t] = [IdleTask EXCEPT !.op = "stop", !.pc = "sp_run",
                                             !.mark = AfterStartOk(t)]]
  /\ ops' = ops + 1
  /\ UNCHANGED <<serviceVars, appVars, platform, rec, pidFile, serverDir, backupDir, versionFile,
                 proc, nextPid, rc>>

StopRun(t) ==
  /\ task[t].pc = "sp_run"
  /\ \E killOk \in BOOLEAN :
       /\ StopEffect(killOk)
       /\ task' = [task EXCEPT ![t] = [@ EXCEPT !.pc = "ret", !.res = "ok",
                     !.killed = StopVerdict(rec, killOk)]]
  /\ UNCHANGED <<serviceVars, appVars, platform, serverDir, backupDir, versionFile, nextPid, rc, ops>>

(* ----------------------------------------------------------------- start *)
\* Where control goes when start_llm_server returns `result`: to the caller
\* of the command, or back into update_llm_server, which called it either
\* for the new binary (phase "new") or for the restored one (phase "old").
AfterStart(r, result) ==
  IF r.op = "start" THEN [r EXCEPT !.pc = "ret", !.res = result, !.sres = result]
  ELSE IF r.phase = "new" THEN [r EXCEPT !.pc = "up_started", !.sres = result]
  ELSE [r EXCEPT !.pc = "ret", !.rres = result,
          !.res = IF r.dl = "ok" THEN "err_start" ELSE "err_install"]

StartBegin(t, c) ==
  /\ CanBegin(t)
  /\ task' = [task EXCEPT ![t] =
                [IdleTask EXCEPT !.op = "start", !.pc = "st_stop", !.cfg = c]]
  /\ ops' = ops + 1
  /\ UNCHANGED <<serviceVars, appVars, platform, rec, pidFile, serverDir, backupDir, versionFile,
                 proc, nextPid, rc>>

\* let _ = stop_llm_server(..).await
StartStop(t) ==
  /\ task[t].pc = "st_stop"
  /\ \E killOk \in BOOLEAN :
       /\ StopEffect(killOk)
       /\ task' = [task EXCEPT ![t] = [@ EXCEPT !.pc = "st_spawn"]]
  /\ UNCHANGED <<serviceVars, appVars, platform, serverDir, backupDir, versionFile, nextPid, rc,
                 ops>>

\* The process cmd.spawn() creates: it runs the binary now in the install
\* directory and listens on the configured endpoint.
SpawnedProc(c) ==
  [alive |-> TRUE, kind |-> "sidecar", cfg |-> c, ver |-> serverDir.ver]

\* server_exe.exists() check, then cmd.spawn().
StartSpawn(t) ==
  /\ task[t].pc = "st_spawn"
  /\ \E spawnOk \in BOOLEAN :
       IF ~StartExeExists(serverDir)
         THEN /\ task' = [task EXCEPT ![t] = AfterStart(@, "not_found")]
              /\ UNCHANGED <<proc, nextPid>>
       ELSE IF spawnOk /\ nextPid <= MaxPid
         THEN /\ proc' = [proc EXCEPT ![nextPid] = SpawnedProc(task[t].cfg)]
              /\ nextPid' = nextPid + 1
              /\ task' = [task EXCEPT ![t] =
                            [@ EXCEPT !.pc = "st_wait", !.child = nextPid]]
       ELSE /\ task' = [task EXCEPT ![t] = AfterStart(@, "spawn_failed")]
            /\ UNCHANGED <<proc, nextPid>>
  /\ UNCHANGED <<serviceVars, appVars, platform, rec, pidFile, serverDir, backupDir, versionFile,
                 rc, ops>>

\* After the 1 s settle sleep: child.try_wait(), then write_pid_file.
\* A Child that is dropped on an error return is not killed.
StartWait(t) ==
  /\ task[t].pc = "st_wait"
  /\ \E out \in {"running", "wait_err", "pidfile_err"} :
       IF ~proc[task[t].child].alive
         THEN /\ task' = [task EXCEPT ![t] = AfterStart(@, "exited")]
              /\ UNCHANGED pidFile
       ELSE IF out = "running"
         THEN /\ pidFile' = [pid |-> task[t].child, cfg |-> task[t].cfg]
              /\ task' = [task EXCEPT ![t] = [@ EXCEPT !.pc = "st_store"]]
       ELSE /\ task' = [task EXCEPT ![t] = AfterStart(@, out)]
            /\ UNCHANGED pidFile
  /\ UNCHANGED <<serviceVars, appVars, platform, rec, serverDir, backupDir, versionFile, proc,
                 nextPid, rc, ops>>

\* *state_guard = Some((Some(child), process_info))
RecordOfStart(r) == [pid |-> r.child, cfg |-> r.cfg, owned |-> TRUE]

StartStore(t) ==
  /\ task[t].pc = "st_store"
  /\ rec' = RecordOfStart(task[t])
  /\ task' = [task EXCEPT ![t] = [@ EXCEPT !.pc = "st_probe"]]
  /\ UNCHANGED <<serviceVars, appVars, platform, pidFile, serverDir, backupDir, versionFile, proc,
                 nextPid, rc, ops>>

\* 3 s sleep, best-effort probe (its result is only logged), return Ok.
StartProbe(t) ==
  /\ task[t].pc = "st_probe"
  /\ task' = [task EXCEPT ![t] = AfterStart(@, "ok")]
  /\ UNCHANGED <<serviceVars, appVars, platform, rec, pidFile, serverDir, backupDir, versionFile,
                 proc, nextPid, rc, ops>>

(* -------------------------------------------------------------- download *)
\* Where control goes when download_llm_server returns `result`.
AfterDownload(r, result) ==
  IF r.op = "download" THEN [r EXCEPT !.pc = "ret", !.res = result, !.dl = result]
  ELSE [r EXCEPT !.pc = "up_after", !.dl = result]

DownloadBegin(t, v) ==
  /\ CanBegin(t)
  /\ task' = [task EXCEPT ![t] =
                [IdleTask EXCEPT !.op = "download", !.pc = "dl_get", !.ver = v,
                                 !.pre = serverDir]]
  /\ ops' = ops + 1
  /\ UNCHANGED <<serviceVars, appVars, platform, rec, pidFile, serverDir, backupDir, versionFile,
                 proc, nextPid, rc>>

\* GET of the release archive and its copy into llm-server/<filename>: a
\* request error, a non-success status or a body read error returns Err with
\* the extraction directory untouched.
DlGet(t) ==
  /\ task[t].pc = "dl_get"
  /\ \E got \in BOOLEAN :
       task' = [task EXCEPT ![t] =
                  IF got THEN [@ EXCEPT !.pc = "dl_extract"]
                  ELSE AfterDownload(@, "err_download")]
  /\ UNCHANGED <<serviceVars, appVars, platform, rec, pidFile, serverDir, backupDir, versionFile,
                 proc, nextPid, rc, ops>>

\* remove_dir_all of an existing extraction directory (an fs error returns
\* Err), then the extraction starts writing into it.
DlExtract(t) ==
  /\ task[t].pc = "dl_extract"
  /\ \E fsOk \in BOOLEAN :
       IF serverDir.kind # "absent" /\ ~fsOk
         THEN /\ task' = [task EXCEPT ![t] =
                            AfterDownload([@ EXCEPT !.fsf = TRUE], "err_fs")]
              /\ UNCHANGED serverDir
         ELSE /\ serverDir' = DirOf("partial", task[t].ver)
              /\ task' = [task EXCEPT ![t] = [@ EXCEPT !.pc = "dl_finish"]]
  /\ UNCHANGED <<serviceVars, appVars, platform, rec, pidFile, backupDir, versionFile, proc,
                 nextPid, rc, ops>>

\* Mutant of InstallVerified: the permission step never fails.
InstallUnchecked(plat, kind) == TRUE

\* The archive's primary binary is marked executable on POSIX builds only;
\* there a binary missing from the extracted tree fails fs::metadata.
InstallVerified(plat, kind) == kind = "full" \/ plat = "windows"

\* store_downloaded_version; its failure is only logged.
VersionAfterStore(old, v, wrote) == IF wrote THEN v ELSE old

\* The extraction ends (done, or failed half way), the binary is chmod-ed,
\* version.json is written, and download_llm_server returns.
DlFinish(t) ==
  /\ task[t].pc = "dl_finish"
  /\ \E out \in {"full", "noexe", "partial"}, wrote \in BOOLEAN :
       /\ serverDir' = DirOf(out, serverDir.ver)
       /\ IF out = "partial"
            THEN /\ task' = [task EXCEPT ![t] = AfterDownload(@, "err_extract")]
                 /\ UNCHANGED versionFile
          ELSE IF ~InstallVerified(platform, out)
            THEN /\ task' = [task EXCEPT ![t] = AfterDownload(@, "err_perm")]
                 /\ UNCHANGED versionFile
          ELSE /\ versionFile' = VersionAfterStore(versionFile, task[t].ver, wrote)
               /\ task' = [task EXCEPT ![t] = AfterDownload(@, "ok")]
  /\ UNCHANGED <<serviceVars, appVars, platform, rec, pidFile, backupDir, proc, nextPid, rc, ops>>

(* ---------------------------------------------------------------- update *)
\* Outcomes of a remove_dir_all followed by a rename: both succeed, the
\* removal fails, or the rename fails.
FsOutcomes == {"ok", "rm_fail", "mv_fail"}

\* was_running = state.lock().is_some()
WasRunning(r) == r.pid # 0

\* Mutant of FirstUpdateStep: the backup is taken without stopping first.
BackupWithoutStop(was) == "up_backup"

\* Step 1 is the stop when a server was running, else update goes straight
\* to the backup.
FirstUpdateStep(was) == IF was THEN "up_stop" ELSE "up_backup"

UpdateBegin(t, v, c) ==
  /\ CanBegin(t)
  /\ task' = [task EXCEPT ![t] =
                [IdleTask EXCEPT !.op = "update", !.ver = v, !.cfg = c,
                   !.was = WasRunning(rec), !.pre = serverDir,
                   !.pc = FirstUpdateStep(WasRunning(rec))]]
  /\ ops' = ops + 1
  /\ UNCHANGED <<serviceVars, appVars, platform, rec, pidFile, serverDir, backupDir, versionFile,
                 proc, nextPid, rc>>

\* Step 1: stop_llm_server (its error is only logged), then a 2 s sleep.
UpdateStop(t) ==
  /\ task[t].pc = "up_stop"
  /\ \E killOk \in BOOLEAN :
       /\ StopEffect(killOk)
       /\ task' = [task EXCEPT ![t] = [@ EXCEPT !.pc = "up_backup"]]
  /\ UNCHANGED <<serviceVars, appVars, platform, serverDir, backupDir, versionFile, nextPid, rc,
                 ops>>

\* Step 2: if the install directory exists, remove an old backup and rename
\* the install directory to the backup path. Either fs error returns Err.
UpdateBackup(t) ==
  /\ task[t].pc = "up_backup"
  /\ \E fs \in FsOutcomes :
       IF serverDir.kind = "absent"
         THEN /\ task' = [task EXCEPT ![t] = [@ EXCEPT !.pc = "dl_get"]]
              /\ UNCHANGED <<serverDir, backupDir>>
       ELSE IF fs = "rm_fail" /\ backupDir.kind # "absent"
         THEN /\ task' = [task EXCEPT ![t] =
                            [@ EXCEPT !.pc = "ret", !.res = "err_fs", !.fsf = TRUE]]
              /\ UNCHANGED <<serverDir, backupDir>>
       ELSE IF fs = "mv_fail"
         THEN /\ task' = [task EXCEPT ![t] =
                            [@ EXCEPT !.pc = "ret", !.res = "err_fs", !.fsf = TRUE]]
              /\ backupDir' = NoDir
              /\ UNCHANGED serverDir
       ELSE /\ backupDir' = serverDir
            /\ serverDir' = NoDir
            /\ task' = [task EXCEPT ![t] = [@ EXCEPT !.pc = "dl_get", !.bak = TRUE]]
  /\ UNCHANGED <<serviceVars, appVars, platform, rec, pidFile, versionFile, proc, nextPid, rc, ops>>

\* fs::remove_dir_all(&backup_path) after a successful update; a failure is
\* only logged and leaves the backup behind.
BackupAfterCleanup(bk, fs) == IF fs = "ok" THEN NoDir ELSE bk

\* Mutant of RestoredDir: the backup is dropped instead of renamed back.
RestoredDirLost(bk) == NoDir

\* fs::rename(&backup_path, &server_path): the install directory gets the
\* backup's content.
RestoredDir(bk) == bk

\* Step 4 with no server to restart: remove the backup and report success.
\* With a server that was running: start_llm_server with the new binary.
UpdateAfterOk(t) ==
  /\ task[t].pc = "up_after" /\ task[t].dl = "ok"
  /\ \E fs \in FsOutcomes :
       IF task[t].was
         THEN /\ task' = [task EXCEPT ![t] =
                            [@ EXCEPT !.pc = "st_stop", !.phase = "new"]]
              /\ UNCHANGED backupDir
         ELSE /\ backupDir' = BackupAfterCleanup(backupDir, fs)
              /\ task' = [task EXCEPT ![t] =
                   [@ EXCEPT !.pc = "ret", !.res = "ok",
                      !.fsf = @ \/ (fs # "ok" /\ backupDir.kind # "absent")]]
  /\ UNCHANGED <<serviceVars, appVars, platform, rec, pidFile, serverDir, versionFile, proc,
                 nextPid, rc, ops>>

\* Mutant of RollbackRestarts: the restart after the restore is left out.
NeverRestarts(restart) == FALSE

\* if was_running { start_llm_server(..) } after the backup is restored.
RollbackRestarts(restart) == restart

\* Mutant of Rollback: the failed install is left in place and the backup is
\* not renamed back before the restart.
RollbackKeepsNewInstall(t, fs, restart, err) ==
  /\ UNCHANGED <<serverDir, backupDir>>
  /\ task' = [task EXCEPT ![t] =
       IF restart
         THEN [@ EXCEPT !.pc = "st_stop", !.phase = "old", !.retry = TRUE]
         ELSE [@ EXCEPT !.pc = "ret", !.res = err]]

\* The rollback both failure branches share: remove what the failed attempt
\* left in the install directory (a failure is only logged, and then the
\* rename onto the non-empty directory fails), rename the backup back
\* (a failure returns Err), and restart the previous binary if asked to.
\* `restart` says whether a start follows; `err` is the error to report.
Rollback(t, fs, restart, err) ==
  IF fs = "rm_fail" /\ serverDir.kind # "absent"
    THEN /\ task' = [task EXCEPT ![t] =
                       [@ EXCEPT !.pc = "ret", !.res = "err_fs", !.fsf = TRUE]]
         /\ UNCHANGED <<serverDir, backupDir>>
  ELSE IF fs = "mv_fail"
    THEN /\ task' = [task EXCEPT ![t] =
                       [@ EXCEPT !.pc = "ret", !.res = "err_fs", !.fsf = TRUE]]
         /\ serverDir' = NoDir
         /\ UNCHANGED backupDir
  ELSE /\ serverDir' = RestoredDir(backupDir)
       /\ backupDir' = NoDir
       /\ task' = [task EXCEPT ![t] =
            IF RollbackRestarts(restart)
              THEN [@ EXCEPT !.pc = "st_stop", !.phase = "old", !.retry = TRUE]
              ELSE [@ EXCEPT !.pc = "ret", !.res = err]]

\* Step 5c: the download or install failed.
UpdateAfterErr(t) ==
  /\ task[t].pc = "up_after" /\ task[t].dl # "ok"
  /\ \E fs \in FsOutcomes :
       IF backupDir.kind # "absent"
         THEN Rollback(t, fs, task[t].was, "err_install")
         ELSE /\ task' = [task EXCEPT ![t] =
                            [@ EXCEPT !.pc = "ret", !.res = "err_install"]]
              /\ UNCHANGED <<serverDir, backupDir>>
  /\ UNCHANGED <<serviceVars, appVars, platform, rec, pidFile, versionFile, proc, nextPid, rc, ops>>

\* Step 5a / 5b: start_llm_server with the new binary has returned.
UpdateStarted(t) ==
  /\ task[t].pc = "up_started"
  /\ \E fs \in FsOutcomes :
       IF task[t].sres = "ok"
         THEN /\ backupDir' = BackupAfterCleanup(backupDir, fs)
              /\ task' = [task EXCEPT ![t] =
                   [@ EXCEPT !.pc = "ret", !.res = "ok",
                      !.fsf = @ \/ (fs # "ok" /\ backupDir.kind # "absent")]]
              /\ UNCHANGED serverDir
       ELSE IF backupDir.kind # "absent"
         THEN Rollback(t, fs, TRUE, "err_start")
       ELSE /\ serverDir' = IF fs = "rm_fail" THEN serverDir ELSE NoDir
            /\ task' = [task EXCEPT ![t] =
                 [@ EXCEPT !.pc = "ret", !.res = "err_start",
                    !.fsf = @ \/ (fs = "rm_fail" /\ serverDir.kind # "absent")]]
            /\ UNCHANGED backupDir
  /\ UNCHANGED <<serviceVars, appVars, platform, rec, pidFile, versionFile, proc, nextPid, rc, ops>>

(* ---------------------------------------------------------------- status *)
\* The endpoint get_llm_server_status probes: the record's, or the default.
StatusEndpoint(r) == IF r.pid # 0 THEN r.cfg ELSE DefaultCfg

StatusOfProbe(o) == IF o = "ok" THEN "running" ELSE "downloaded"

\* Mutant of ErrorOfProbe: the error field is left None.
ErrorNeverSet(o) == "none"

\* The error field: None on a success status, else "Server responded with
\* status: .." or "Connection failed: ..".
ErrorOfProbe(o) == IF o = "ok" THEN "none" ELSE "probe failed"

\* The executable lookup and the locked read of the record.
StatusBegin(t) ==
  /\ CanBegin(t)
  /\ task' = [task EXCEPT ![t] =
       IF StatusExeExists(platform, serverDir)
         THEN [IdleTask EXCEPT !.op = "status", !.pc = "sq_probe",
                 !.cfg = StatusEndpoint(rec), !.mark = AfterStop(t)]
         ELSE [IdleTask EXCEPT !.op = "status", !.pc = "ret",
                 !.res = "not_downloaded", !.mark = AfterStop(t)]]
  /\ ops' = ops + 1
  /\ UNCHANGED <<serviceVars, appVars, platform, rec, pidFile, serverDir, backupDir, versionFile,
                 proc, nextPid, rc>>

\* The 5 s bounded probe, made without the lock.
StatusProbe(t) ==
  /\ task[t].pc = "sq_probe"
  /\ \E o \in ProbeOutcomes(task[t].cfg) :
       task' = [task EXCEPT ![t] = [@ EXCEPT !.pc = "ret",
                  !.res = StatusOfProbe(o), !.error = ErrorOfProbe(o)]]
  /\ UNCHANGED <<serviceVars, appVars, platform, rec, pidFile, serverDir, backupDir, versionFile,
                 proc, nextPid, rc, ops>>

(* ---------------------------------------------------- orphan reconnection *)
\* read_pid_file
RcRead ==
  /\ rc.pc = "read"
  /\ rc' = IF pidFile.pid = 0
             THEN [rc EXCEPT !.pc = "done", !.out = "nofile"]
             ELSE [rc EXCEPT !.pc = "alive", !.pid = pidFile.pid, !.cfg = pidFile.cfg]
  /\ UNCHANGED <<serviceVars, appVars, platform, rec, pidFile, serverDir, backupDir, versionFile,
                 proc, nextPid, task, ops>>

\* is_process_running(pid): a dead pid removes the stale file.
RcAlive ==
  /\ rc.pc = "alive"
  /\ IF IsProcessRunning(rc.pid)
       THEN /\ rc' = [rc EXCEPT !.pc = "probe"]
            /\ UNCHANGED pidFile
       ELSE /\ rc' = [rc EXCEPT !.pc = "done", !.out = "dead"]
            /\ pidFile' = RemovePidFile
  /\ UNCHANGED <<serviceVars, appVars, platform, rec, serverDir, backupDir, versionFile, proc,
                 nextPid, task, ops>>

\* The 3 s bounded probe of the pid file's endpoint.
RcProbe ==
  /\ rc.pc = "probe"
  /\ \E o \in ProbeOutcomes(rc.cfg) :
       IF o = "ok"
         THEN /\ rc' = [rc EXCEPT !.pc = "store"]
              /\ UNCHANGED pidFile
         ELSE /\ rc' = [rc EXCEPT !.pc = "done", !.out = "unresponsive"]
              /\ pidFile' = RemovePidFile
  /\ UNCHANGED <<serviceVars, appVars, platform, rec, serverDir, backupDir, versionFile, proc,
                 nextPid, task, ops>>

\* Mutant of OrphanRecord: the record gets the default endpoint, not the file's.
OrphanRecordDefaultEndpoint(r) == [pid |-> r.pid, cfg |-> DefaultCfg, owned |-> FALSE]

\* *state_guard = Some((None, process_info))
OrphanRecord(r) == [pid |-> r.pid, cfg |-> r.cfg, owned |-> FALSE]

RcStore ==
  /\ rc.pc = "store"
  /\ rec' = OrphanRecord(rc)
  /\ rc' = [rc EXCEPT !.pc = "done", !.out = "reconnected"]
  /\ UNCHANGED <<serviceVars, appVars, platform, pidFile, serverDir, backupDir, versionFile, proc,
                 nextPid, task, ops>>

(* ------------------------------------------- embedded service: downloads *)
\* uuid::Uuid::new_v4(): an id no earlier request was given (a random
\* 122-bit value, taken to be collision-free).
NewV4(ds) == CHOOSE i \in Slots : \A k \in DOMAIN ds : ds[k].id # i

\* target_name, or model-<first 8 characters of the id>.gguf.
TargetPath(named, id) == IF named THEN 0 ELSE id

\* Mutant of DownloadsAfterRegister: the record is not pushed.
DownloadsNotRegistered(ds, d) == ds

\* register_download: push onto the Vec.
DownloadsAfterRegister(ds, d) == Append(ds, d)

\* Mutant of FindDownload: the first entry, whatever its id.
FindFirstEntry(ds, id) == IF ds = <<>> THEN 0 ELSE 1

\* guard.iter_mut().find(|d| d.id == id): index of the first entry with the
\* id, 0 when there is none.
FindDownload(ds, id) ==
  IF \E k \in DOMAIN ds : ds[k].id = id
    THEN CHOOSE k \in DOMAIN ds :
           ds[k].id = id /\ \A j \in DOMAIN ds : ds[j].id = id => k <= j
    ELSE 0

\* update_download with the closure of the response step.
SetInProgress(ds, id, total) ==
  LET k == FindDownload(ds, id) IN
    IF k = 0 THEN ds
    ELSE [ds EXCEPT ![k] = [@ EXCEPT !.status = "in_progress", !.total_bytes = total]]

\* update_download with the closure of the chunk loop.
SetBytes(ds, id, n) ==
  LET k == FindDownload(ds, id) IN
    IF k = 0 THEN ds ELSE [ds EXCEPT ![k] = [@ EXCEPT !.bytes_downloaded = n]]

\* update_download with the closure that ends perform_download.
SetCompleted(ds, id) ==
  LET k == FindDownload(ds, id) IN
    IF k = 0 THEN ds ELSE [ds EXCEPT ![k] = [@ EXCEPT !.status = "completed"]]

\* update_download with the closure of the spawned task's error branch.
SetFailed(ds, id, e) ==
  LET k == FindDownload(ds, id) IN
    IF k = 0 THEN ds
    ELSE [ds EXCEPT ![k] = [@ EXCEPT !.status = "failed", !.error = e]]

\* download_handler up to the await of register_download: a fresh id, the
\* target path, and the Pending record pushed onto the registry.
DhRegister(s, named, sha) ==
  /\ dl[s].pc = "idle"
  /\ IF s = 1 THEN TRUE ELSE dl[s - 1].pc # "idle"
  /\ LET id == NewV4(downloads)
         d == [id |-> id, target_path |-> TargetPath(named, id),
               bytes_downloaded |-> 0, total_bytes |-> 0,
               status |-> "pending", error |-> NoErr]
     IN /\ downloads' = DownloadsAfterRegister(downloads, d)
        /\ dl' = [dl EXCEPT ![s] =
                    [IdleDl EXCEPT !.pc = "registered", !.id = id,
                                   !.target = TargetPath(named, id), !.sha = sha]]
  /\ UNCHANGED <<supervisorVars, appVars, registryVars, files>>

\* task::spawn of the background task, then the response with the id.
DhReturn(s) ==
  /\ dl[s].pc = "registered"
  /\ dl' = [dl EXCEPT ![s] = [@ EXCEPT !.pc = "get", !.returned = TRUE]]
  /\ UNCHANGED <<supervisorVars, appVars, registryVars, downloads, files>>

\* perform_download returns Err(e): control goes to the spawned task's
\* error branch.
Failing(r, e) == [r EXCEPT !.pc = "fail", !.err = e]

\* client.get(url).send(): a request error or a non-success status returns
\* Err; a success status records InProgress and content_length (0: None).
PdGet(s) ==
  /\ dl[s].pc = "get"
  /\ \E out \in {"ok", "request", "status"}, total \in {0, BodyLen} :
       IF out = "ok"
         THEN /\ downloads' = SetInProgress(downloads, dl[s].id, total)
              /\ dl' = [dl EXCEPT ![s] = [@ EXCEPT !.pc = "open", !.left = BodyLen]]
         ELSE /\ dl' = [dl EXCEPT ![s] = Failing(@, ErrorOf(out))]
              /\ UNCHANGED downloads
  /\ UNCHANGED <<supervisorVars, appVars, registryVars, files>>

\* open_target: create_dir_all and File::create, which truncates an
\* existing file; either failing returns Err.
PdOpen(s) ==
  /\ dl[s].pc = "open"
  /\ \E ok \in BOOLEAN :
       IF ok
         THEN /\ files' = [files EXCEPT ![dl[s].target] =
                             [exists |-> TRUE, data |-> <<>>]]
              /\ dl' = [dl EXCEPT ![s] =
                          [@ EXCEPT !.pc = "stream", !.opened = TRUE]]
         ELSE /\ dl' = [dl EXCEPT ![s] = Failing(@, ErrorOf("create"))]
              /\ UNCHANGED files
  /\ UNCHANGED <<supervisorVars, appVars, registryVars, downloads>>

\* A write of n body bytes through a handle positioned at off: the positions
\* are overwritten, the file grows as needed, a gap left by another handle's
\* truncation reads as 0.
WriteAt(data, off, n) ==
  [i \in 1..(IF Len(data) > off + n THEN Len(data) ELSE off + n) |->
     IF i > off /\ i <= off + n THEN 1
     ELSE IF i <= Len(data) THEN data[i] ELSE 0]

\* Mutant of BytesAfterChunk: the chunk's length instead of the running total.
BytesOfLastChunk(downloaded, n) == n

\* downloaded += chunk.len() as u64
BytesAfterChunk(downloaded, n) == downloaded + n

\* One turn of the chunk loop up to the await of update_download: the
\* stream yields a chunk of n bytes and write_all writes it (or fails after
\* j < n bytes), or the stream yields an error.
PdChunk(s) ==
  /\ dl[s].pc = "stream" /\ dl[s].left > 0
  /\ \E n \in 1..dl[s].left, out \in {"ok", "chunk", "write"}, j \in 0..(BodyLen - 1) :
       /\ j < n
       /\ out # "write" => j = 0
       /\ IF out = "ok"
            THEN /\ files' = [files EXCEPT ![dl[s].target].data =
                                WriteAt(@, dl[s].off, n)]
                 /\ dl' = [dl EXCEPT ![s] =
                      [@ EXCEPT !.pc = "record", !.off = @ + n, !.left = @ - n,
                                !.written = @ + n,
                                !.downloaded = BytesAfterChunk(@, n)]]
          ELSE IF out = "write"
            THEN /\ files' = [files EXCEPT ![dl[s].target].data =
                                WriteAt(@, dl[s].off, j)]
                 /\ dl' = [dl EXCEPT ![s] =
                      Failing([@ EXCEPT !.off = @ + j, !.written = @ + j],
                              ErrorOf("write"))]
          ELSE /\ dl' = [dl EXCEPT ![s] = Failing(@, ErrorOf("chunk"))]
               /\ UNCHANGED files
  /\ UNCHANGED <<supervisorVars, appVars, registryVars, downloads>>

\* The chunk loop's update_download: bytes_downloaded = downloaded.
PdRecord(s) ==
  /\ dl[s].pc = "record"
  /\ downloads' = SetBytes(downloads, dl[s].id, dl[s].downloaded)
  /\ dl' = [dl EXCEPT ![s] = [@ EXCEPT !.pc = "stream"]]
  /\ UNCHANGED <<supervisorVars, appVars, registryVars, files>>

\* The stream has ended: file.flush(), then the checksum if one was supplied.
PdFlush(s) ==
  /\ dl[s].pc = "stream" /\ dl[s].left = 0
  /\ \E ok \in BOOLEAN :
       dl' = [dl EXCEPT ![s] =
                IF ~ok THEN Failing(@, ErrorOf("flush"))
                ELSE IF dl[s].sha # NoDigest THEN [@ EXCEPT !.pc = "verify"]
                ELSE [@ EXCEPT !.pc = "complete"]]
  /\ UNCHANGED <<supervisorVars, appVars, registryVars, downloads, files>>

\* format!("{:x}", hasher.finalize()) over the file as it is on disk:
\* lower-case hex; only the complete body hashes to the body's digest.
Sha256Hex(data) ==
  [hex |-> IF data = Body THEN "d_body" ELSE "d_partial", upper |-> FALSE]

\* str::to_lowercase on a hex digest
ToLowercase(d) == [d EXCEPT !.upper = FALSE]

\* Mutant of MismatchError: the message names the expected digest only.
MismatchErrorNoActual(expected, actual) ==
  [kind |-> "mismatch", expected |-> expected, actual |-> NoDigest]

\* "Checksum mismatch: expected {} but found {}"
MismatchError(expected, actual) ==
  [kind |-> "mismatch", expected |-> expected, actual |-> actual]

\* verify_sha256(path, expected)
VerifySha256(f, expected) ==
  IF Sha256Hex(f.data) # ToLowercase(expected)
    THEN MismatchError(expected, Sha256Hex(f.data))
    ELSE NoErr

\* spawn_blocking(verify_sha256): the blocking task fails to join, the file
\* cannot be opened or read, the digests differ, or they agree.
PdVerify(s) ==
  /\ dl[s].pc = "verify"
  /\ \E out \in {"run", "checksum_task", "checksum_io"} :
       LET e == IF out = "run" THEN VerifySha256(files[dl[s].target], dl[s].sha)
                ELSE ErrorOf(out)
       IN dl' = [dl EXCEPT ![s] =
                   IF e = NoErr THEN [@ EXCEPT !.pc = "complete"] ELSE Failing(@, e)]
  /\ UNCHANGED <<supervisorVars, appVars, registryVars, downloads, files>>

\* perform_download's last update_download, and Ok(()).
PdComplete(s) ==
  /\ dl[s].pc = "complete"
  /\ downloads' = SetCompleted(downloads, dl[s].id)
  /\ dl' = [dl EXCEPT ![s] = [@ EXCEPT !.pc = "done"]]
  /\ UNCHANGED <<supervisorVars, appVars, registryVars, files>>

\* Mutant of FilesAfterFailure: the failed download's target is removed.
FilesCleanedUp(fs, target) == [fs EXCEPT ![target] = NoFile]

\* The spawned task's error branch touches the registry only: whatever is
\* on disk stays.
FilesAfterFailure(fs, target) == fs

\* The spawned task's error branch: status Failed, error = the message.
PdFail(s) ==
  /\ dl[s].pc = "fail"
  /\ downloads' = SetFailed(downloads, dl[s].id, dl[s].err)
  /\ files' = FilesAfterFailure(files, dl[s].target)
  /\ dl' = [dl EXCEPT ![s] = [@ EXCEPT !.pc = "done"]]
  /\ UNCHANGED <<supervisorVars, appVars, registryVars>>

(* -------------------------------------------- embedded service: registry *)
\* Mutant of LockFree: lock() returns without waiting for the holder.
LockIgnored(holder) == TRUE

\* parking_lot::Mutex::lock returns once no one holds the mutex.
LockFree(holder) == holder = 0

\* The request returns its response.
Returns(r, result) == [r EXCEPT !.pc = "idle", !.res = result]

\* ensure_model begins: EMBEDDED_MODEL.get().is_none() decides between the
\* first-time construction and the comparison of paths.
LoadBegin(t, p) ==
  /\ thr[t].pc = "idle" /\ calls < MaxCalls
  /\ thr' = [thr EXCEPT ![t] =
               [IdleThr EXCEPT !.op = "load", !.path = p, !.call = calls + 1,
                  !.pc = IF cell.set THEN "read_path" ELSE "first_new"]]
  /\ calls' = calls + 1
  /\ UNCHANGED <<supervisorVars, appVars, downloadVars, cell, lockBy, engines, modelState>>

\* EmbeddedModel::new on the first-load path, with no lock held: the file is
\* missing or the load fails (Err), or an engine now exists.
FirstNew(t) ==
  /\ thr[t].pc = "first_new"
  /\ \E ok \in BOOLEAN :
       IF ok
         THEN /\ engines' = engines \cup {thr[t].call}
              /\ thr' = [thr EXCEPT ![t] =
                           [@ EXCEPT !.pc = "first_set", !.eng = thr[t].call]]
         ELSE /\ thr' = [thr EXCEPT ![t] = Returns(@, "err")]
              /\ UNCHANGED engines
  /\ UNCHANGED <<supervisorVars, appVars, downloadVars, cell, lockBy, modelState, calls>>

\* let _ = EMBEDDED_MODEL.set(shared): the first set wins; a later one fails
\* and its engine is dropped with `shared`.
FirstSet(t) ==
  /\ thr[t].pc = "first_set"
  /\ IF cell.set
       THEN /\ engines' = engines \ {thr[t].eng}
            /\ UNCHANGED cell
       ELSE /\ cell' = [set |-> TRUE, path |-> thr[t].path, engine |-> thr[t].eng]
            /\ UNCHANGED engines
  /\ thr' = [thr EXCEPT ![t] = [@ EXCEPT !.pc = "read_path"]]
  /\ UNCHANGED <<supervisorVars, appVars, downloadVars, lockBy, modelState, calls>>

\* Mutant of SamePath: the comparison never finds the path loaded.
NeverSamePath(cur, p) == FALSE

\* current_path != config.model_path, negated: the requested path is the
\* one the engine in the cell was loaded from.
SamePath(cur, p) == cur = p

\* current_path = { cell.lock().model_path.clone() }, then the comparison
\* with config.model_path: equal paths return Ok with the engine untouched,
\* and load_handler goes on to record the model.
ReadPath(t) ==
  /\ thr[t].pc = "read_path"
  /\ LockFree(lockBy)
  /\ thr' = [thr EXCEPT ![t] =
               [@ EXCEPT !.pc = IF SamePath(cell.path, thr[t].path)
                                  THEN "record" ELSE "replace_lock"]]
  /\ UNCHANGED <<supervisorVars, appVars, downloadVars, cell, lockBy, engines,
                 modelState, calls>>

\* let mut lock = cell.lock();
ReplaceLock(t) ==
  /\ thr[t].pc = "replace_lock"
  /\ LockFree(lockBy)
  /\ lockBy' = t
  /\ thr' = [thr EXCEPT ![t] = [@ EXCEPT !.pc = "replace_new"]]
  /\ UNCHANGED <<supervisorVars, appVars, downloadVars, cell, engines, modelState, calls>>

\* Mutant of CellAfterReplace: a failed construction leaves the cell's
\* engine without a model path.
CellClearedOnFailure(c, ok, path, eng) ==
  IF ok THEN [set |-> TRUE, path |-> path, engine |-> eng]
  ELSE [c EXCEPT !.path = 0]

\* What the cell holds after `*lock = EmbeddedModel::new(&config)?`: the
\* new engine, or on Err, which leaves through `?` before anything is
\* assigned, what it held.
CellAfterReplace(c, ok, path, eng) ==
  IF ok THEN [set |-> TRUE, path |-> path, engine |-> eng] ELSE c

\* The right-hand side of `*lock = EmbeddedModel::new(&config)?`, evaluated
\* with the lock held and the old engine still in the cell: Err releases the
\* lock and keeps the old engine.
ReplaceNew(t) ==
  /\ thr[t].pc = "replace_new"
  /\ \E ok \in BOOLEAN :
       IF ok
         THEN /\ engines' = engines \cup {thr[t].call}
              /\ thr' = [thr EXCEPT ![t] =
                           [@ EXCEPT !.pc = "assign", !.eng = thr[t].call]]
              /\ UNCHANGED <<lockBy, cell>>
         ELSE /\ thr' = [thr EXCEPT ![t] = Returns(@, "err")]
              /\ lockBy' = 0
              /\ cell' = CellAfterReplace(cell, FALSE, thr[t].path, 0)
              /\ UNCHANGED engines
  /\ UNCHANGED <<supervisorVars, appVars, downloadVars, modelState, calls>>

\* The assignment `*lock = ..`: the old engine is dropped, the new one takes
\* its place, the guard goes out of scope; ensure_model returns Ok.
Assign(t) ==
  /\ thr[t].pc = "assign"
  /\ cell' = CellAfterReplace(cell, TRUE, thr[t].path, thr[t].eng)
  /\ engines' = engines \ {cell.engine}
  /\ lockBy' = 0
  /\ thr' = [thr EXCEPT ![t] = [@ EXCEPT !.pc = "record"]]
  /\ UNCHANGED <<supervisorVars, appVars, downloadVars, modelState, calls>>

\* load_handler after the blocking task returned Ok:
\* state.record_model(model_path, context_length), then the response.
RecordModel(t) ==
  /\ thr[t].pc = "record"
  /\ modelState' = thr[t].path
  /\ thr' = [thr EXCEPT ![t] = Returns(@, "ok")]
  /\ UNCHANGED <<supervisorVars, appVars, downloadVars, cell, lockBy, engines, calls>>

\* Mutant of EnsureReady: every inference request is let through.
AlwaysReady(ms) == TRUE

\* ensure_ready: guard.is_some() on InnerState.model.
EnsureReady(ms) == ms # 0

\* infer_handler: an Err of ensure_ready is answered 400 Bad Request before
\* anything is spawned; otherwise embedded_llm::infer on the blocking pool
\* reads the cell, and an unset cell is an Err (500).
InferBegin(t) ==
  /\ thr[t].pc = "idle" /\ calls < MaxCalls
  /\ thr' = [thr EXCEPT ![t] =
               LET r == [IdleThr EXCEPT !.op = "infer", !.call = calls + 1]
               IN  IF ~EnsureReady(modelState) THEN Returns(r, "bad_request")
                   ELSE IF ~cell.set THEN Returns(r, "err")
                   ELSE [r EXCEPT !.pc = "infer_lock"]]
  /\ calls' = calls + 1
  /\ UNCHANGED <<supervisorVars, appVars, downloadVars, cell, lockBy, engines, modelState>>

\* let mut guard = model.lock(); the inference runs on the engine in the cell.
InferLock(t) ==
  /\ thr[t].pc = "infer_lock"
  /\ LockFree(lockBy)
  /\ lockBy' = t
  /\ thr' = [thr EXCEPT ![t] = [@ EXCEPT !.pc = "inferring", !.eng = cell.engine]]
  /\ UNCHANGED <<supervisorVars, appVars, downloadVars, cell, engines, modelState, calls>>

\* guard.infer(&args) returns (Ok or Err) and the guard is dropped.
InferEnd(t) ==
  /\ thr[t].pc = "inferring"
  /\ \E result \in {"ok", "err"} : thr' = [thr EXCEPT ![t] = Returns(@, result)]
  /\ lockBy' = 0
  /\ UNCHANGED <<supervisorVars, appVars, downloadVars, cell, engines, modelState, calls>>

\* Mutant of SnapshotReady: the snapshot waits for the engine's lock.
SnapshotWaitsForEngine(holder) == holder = 0

\* model_snapshot: self.inner.model.lock().await is the tokio mutex around
\* the recorded ModelState, held only inside record_model, ensure_ready and
\* model_snapshot; the engine's lock (holder) is not involved.
SnapshotReady(holder) == TRUE

\* status_handler: ready and model from model_snapshot.
StatusHandler(t) ==
  /\ thr[t].pc = "idle"
  /\ SnapshotReady(lockBy)
  /\ thr' = [thr EXCEPT ![t] =
               Returns([IdleThr EXCEPT !.op = "status", !.seen = modelState,
                                       !.during = lockBy],
                       IF modelState # 0 THEN "ready" ELSE "not_ready")]
  /\ UNCHANGED <<supervisorVars, appVars, downloadVars, cell, lockBy, engines,
                 modelState, calls>>

(* ----------------------------------------------- EmbeddedModel::infer *)
\* self.config.gpu_layers.unwrap_or(0) >= 33
Accelerated(r) ==
  (IF r.gpu_layers = None THEN 0 ELSE r.gpu_layers) >= GpuLayersForAcceleration

\* let context_length = ..
ContextLength(r) ==
  IF Accelerated(r)
    THEN IF r.context_length = None THEN DefaultContextLength ELSE r.context_length
    ELSE CpuContextLength

\* let max_prompt_chars = ..
MaxPromptChars(r) == IF Accelerated(r) THEN r.prompt ELSE CpuPromptChars

\* &prompt[..n] of a prompt of `len` bytes: its first n bytes; slicing past
\* the end panics (None).
SliceTo(len, n) == IF n <= len THEN n ELSE None

\* let truncated_prompt = if max_prompt_chars > prompt.len()
\* { &prompt[..max_prompt_chars] } else { &prompt[..] }: the length of the
\* slice.
TruncatedPrompt(len, max_prompt_chars) ==
  IF max_prompt_chars > len THEN SliceTo(len, max_prompt_chars) ELSE len

Min(a, b) == IF a < b THEN a ELSE b

\* let max_tokens = args.max_tokens.unwrap_or(cap).min(cap)
MaxTokens(r) ==
  LET cap == IF Accelerated(r) THEN GpuTokenCap ELSE CpuTokenCap
  IN  Min(IF r.max_tokens = None THEN cap ELSE r.max_tokens, cap)

\* From create_session to start_completing_with: each of the three calls
\* into the library can return Err, and the slice can panic.
InferSession ==
  /\ inf.pc = "start"
  /\ \E libOk \in BOOLEAN :
       LET fed == TruncatedPrompt(inf.prompt, MaxPromptChars(inf))
       IN  inf' =
             IF fed = None
               THEN [inf EXCEPT !.pc = "done", !.res = "panic",
                                !.n_ctx = ContextLength(inf)]
             ELSE IF ~libOk
               THEN [inf EXCEPT !.pc = "done", !.res = "err",
                                !.n_ctx = ContextLength(inf), !.fed = fed]
             ELSE [inf EXCEPT !.pc = "generate", !.n_ctx = ContextLength(inf),
                              !.fed = fed, !.budget = MaxTokens(inf)]
  /\ UNCHANGED <<supervisorVars, serviceVars, managerVars, versionVars>>

\* if decoded_tokens >= max_tokens { break; }
BudgetReached(decoded_tokens, max_tokens) == decoded_tokens >= max_tokens

\* One pass of `while let Some(token) = completion.next()` with a token:
\* past the deadline the loop breaks, else the token is counted and the
\* budget compared.
InferToken ==
  /\ inf.pc = "generate"
  /\ \E timedOut \in BOOLEAN :
       inf' = IF timedOut THEN [inf EXCEPT !.pc = "done", !.res = "ok"]
              ELSE IF BudgetReached(inf.decoded_tokens + 1, inf.budget)
                THEN [inf EXCEPT !.decoded_tokens = @ + 1, !.pc = "done",
                                 !.res = "ok"]
              ELSE [inf EXCEPT !.decoded_tokens = @ + 1]
  /\ UNCHANGED <<supervisorVars, serviceVars, managerVars, versionVars>>

\* completion.next() is None: the library has no further token.
GenerationEnds ==
  /\ inf.pc = "generate"
  /\ inf' = [inf EXCEPT !.pc = "done", !.res = "ok"]
  /\ UNCHANGED <<supervisorVars, serviceVars, managerVars, versionVars>>

(* -------------------------------------------------------- version check *)
\* str::trim_start_matches(c): every leading c is removed.
RECURSIVE TrimStartMatches(_, _)
TrimStartMatches(str, c) ==
  IF str # <<>> /\ Head(str) = c THEN TrimStartMatches(Tail(str), c) ELSE str

\* str::trim(): leading and trailing whitespace removed.
RECURSIVE Trim(_)
Trim(str) ==
  IF str = <<>> THEN str
  ELSE IF Head(str) = " " THEN Trim(Tail(str))
  ELSE IF str[Len(str)] = " " THEN Trim(SubSeq(str, 1, Len(str) - 1))
  ELSE str

\* str::split('.'): the parts between the dots; one part when there is none.
RECURSIVE Split(_)
Split(str) ==
  IF \A i \in 1..Len(str) : str[i] # "." THEN <<str>>
  ELSE LET i == CHOOSE k \in 1..Len(str) :
                  str[k] = "." /\ \A j \in 1..(k - 1) : str[j] # "."
       IN  <<SubSeq(str, 1, i - 1)>> \o Split(SubSeq(str, i + 1, Len(str)))

DigitValue(c) == CASE c = "0" -> 0 [] c = "1" -> 1 [] c = "2" -> 2

\* The number the digits spell.
RECURSIVE DigitsValue(_)
DigitsValue(part) ==
  IF part = <<>> THEN 0
  ELSE 10 * DigitsValue(SubSeq(part, 1, Len(part) - 1))
         + DigitValue(part[Len(part)])

\* part.parse::<u32>().ok(): -1 stands for None (empty, or a character that
\* is no digit); the numbers of Components stay far below 2^32, where the
\* parse would fail too.
ParseU32(part) ==
  IF part = <<>> \/ \E i \in 1..Len(part) : part[i] \notin Digits THEN -1
  ELSE DigitsValue(part)

\* parse_version: <<>> stands for None.
parse_version(version_str) ==
  LET cleaned == TrimStartMatches(Trim(version_str), "v")
      parts == Split(cleaned)
  IN  IF Len(parts) >= 3
        THEN LET major == ParseU32(parts[1])
                 minor == ParseU32(parts[2])
                 patch == ParseU32(parts[3])
             IN  IF major = -1 \/ minor = -1 \/ patch = -1 THEN <<>>
                 ELSE <<major, minor, patch>>
        ELSE <<>>

\* Mutant of CompareChain: the minor numbers are not compared.
CompareChainNoMinor(v1, v2) ==
  IF v1[1] > v2[1] THEN TRUE
  ELSE IF v1[1] < v2[1] THEN FALSE
  ELSE v1[3] > v2[3]

\* The if-chain of compare_versions over two parsed versions.
CompareChain(v1, v2) ==
  IF v1[1] > v2[1] THEN TRUE
  ELSE IF v1[1] < v2[1] THEN FALSE
  ELSE IF v1[2] > v2[2] THEN TRUE
  ELSE IF v1[2] < v2[2] THEN FALSE
  ELSE IF v1[3] > v2[3] THEN TRUE
  ELSE FALSE

\* compare_versions: None when either version does not parse.
compare_versions(version1, version2) ==
  LET v1 == parse_version(version1)
      v2 == parse_version(version2)
  IN  IF v1 = <<>> \/ v2 = <<>> THEN "None"
      ELSE IF CompareChain(v1, v2) THEN "Some(true)" ELSE "Some(false)"

\* get_llm_server_status's version: None without an executable, else the
\* stored version with the fallback "1.0.0".
StatusVersion(inst) ==
  IF ~inst.exe THEN NoVersion
  ELSE IF inst.stored = NoVersion THEN FallbackVersion
  ELSE inst.stored

\* update_available of check_llm_server_update.
UpdateAvailable(current_version, latest_version) ==
  IF current_version # NoVersion /\ latest_version # NoVersion
    THEN compare_versions(latest_version, current_version) = "Some(true)"
  ELSE current_version = NoVersion /\ latest_version # NoVersion

\* check_llm_server_update; compared: what compare_versions answered, when
\* it was called.
CheckUpdate ==
  /\ verdict.pc = "idle"
  /\ LET current_version == StatusVersion(install)
     IN  verdict' =
           [pc |-> "done",
            current_version |-> current_version,
            latest_version |-> latest,
            update_available |-> UpdateAvailable(current_version, latest),
            compared |->
              IF current_version # NoVersion /\ latest # NoVersion
                THEN compare_versions(latest, current_version)
                ELSE "not called"]
  /\ UNCHANGED <<supervisorVars, serviceVars, managerVars, inf, latest, install>>

(* ------------------------------------------------------ service manager *)
\* A first-use call (snapshot, load_model, infer, download_model) enters
\* client_and_base_url, which awaits ensure_service.
EnsureBegin(c) ==
  /\ caller[c].pc = "idle" /\ spawns < MaxSpawns
  /\ caller' = [caller EXCEPT ![c] = [IdleCaller EXCEPT !.pc = "check"]]
  /\ UNCHANGED <<supervisorVars, serviceVars, versionVars, inf, manager, services,
                 spawns>>

\* if let Some(info) = current_info().await { return Ok(info) }: the guard
\* is dropped when current_info returns.
EnsureCheck(c) ==
  /\ caller[c].pc = "check"
  /\ caller' = [caller EXCEPT ![c] =
                  [@ EXCEPT !.pc = IF manager # 0 THEN "client" ELSE "spawn"]]
  /\ UNCHANGED <<supervisorVars, serviceVars, versionVars, inf, manager, services,
                 spawns>>

\* Mutant of ShutDown: a dropped handle leaves its service running.
LeftRunning(live, h) == live

\* impl Drop for ServiceHandle: the shutdown signal is sent and the server
\* task aborted.
ShutDown(live, h) == live \ {h}

\* spawn_service().await? with no lock held: the bind fails (Err), or a
\* service now listens and the invocation owns its handle.
EnsureSpawn(c) ==
  /\ caller[c].pc = "spawn"
  /\ \E ok \in BOOLEAN :
       IF ok
         THEN /\ spawns' = spawns + 1
              /\ services' = services \cup {spawns + 1}
              /\ caller' = [caller EXCEPT ![c] =
                              [@ EXCEPT !.pc = "store", !.handle = spawns + 1]]
         ELSE /\ caller' = [caller EXCEPT ![c] =
                              [@ EXCEPT !.pc = "idle", !.res = "err"]]
              /\ UNCHANGED <<spawns, services>>
  /\ UNCHANGED <<supervisorVars, serviceVars, versionVars, inf, manager>>

\* reqwest::Client::builder()..build()?, then
\* let mut guard = SERVICE_MANAGER.lock().await: a failed build returns Err
\* and drops the handle; an existing service wins and the handle just
\* spawned is dropped on return; otherwise it is stored.
EnsureStore(c) ==
  /\ caller[c].pc = "store"
  /\ \E built \in BOOLEAN :
       /\ IF built /\ manager = 0
            THEN /\ manager' = caller[c].handle
                 /\ UNCHANGED services
            ELSE /\ services' = ShutDown(services, caller[c].handle)
                 /\ UNCHANGED manager
       /\ caller' = [caller EXCEPT ![c] =
                       IF built THEN [@ EXCEPT !.pc = "client", !.handle = 0]
                       ELSE [@ EXCEPT !.pc = "idle", !.handle = 0, !.res = "err"]]
  /\ UNCHANGED <<supervisorVars, serviceVars, versionVars, inf, spawns>>

\* client_and_base_url after ensure_service returned Ok: the client and
\* base URL of the stored service.
ClientAndBaseUrl(c) ==
  /\ caller[c].pc = "client"
  /\ caller' = [caller EXCEPT ![c] =
                  [@ EXCEPT !.pc = "idle",
                            !.res = IF manager # 0 THEN "ok" ELSE "err"]]
  /\ UNCHANGED <<supervisorVars, serviceVars, versionVars, inf, manager, services,
                 spawns>>

(* ------------------------------------------------------- specifications *)
\* start, stop, status
Lifecycle(t) ==
  \/ StopBegin(t) \/ StopRun(t)
  \/ \E c \in Configs : StartBegin(t, c)
  \/ StartStop(t) \/ StartSpawn(t) \/ StartWait(t) \/ StartStore(t)
  \/ StartProbe(t)
  \/ StatusBegin(t) \/ StatusProbe(t)

\* download, update
Install(t) ==
  \/ \E v \in NewVersions : DownloadBegin(t, v)
  \/ DlGet(t) \/ DlExtract(t) \/ DlFinish(t)
  \/ \E v \in NewVersions, c \in Configs : UpdateBegin(t, v, c)
  \/ UpdateStop(t) \/ UpdateBackup(t) \/ UpdateAfterOk(t) \/ UpdateAfterErr(t)
  \/ UpdateStarted(t)

Background ==
  \/ RcRead \/ RcAlive \/ RcProbe \/ RcStore
  \/ \E p \in Pids : ProcExit(p)

\* Commands invoked concurrently: caller 1 invokes any command, caller 2 a
\* lifecycle command while caller 1's is in flight or after it.
Next == Lifecycle(1) \/ Install(1) \/ Lifecycle(2) \/ Background

Spec == Init /\ [][Next]_vars

\* Commands invoked one after the other, each after the previous returned,
\* the first after the startup reconnection has finished.
SeqTasks == {1}

Booted == rc.pc = "done"

SeqStep(t) ==
  \/ Booted /\ StopBegin(t)
  \/ StopRun(t)
  \/ \E c \in Configs : Booted /\ StartBegin(t, c)
  \/ StartStop(t) \/ StartSpawn(t) \/ StartWait(t) \/ StartStore(t)
  \/ StartProbe(t)
  \/ \E v \in NewVersions : Booted /\ DownloadBegin(t, v)
  \/ DlGet(t) \/ DlExtract(t) \/ DlFinish(t)
  \/ \E v \in NewVersions, c \in Configs : Booted /\ UpdateBegin(t, v, c)
  \/ UpdateStop(t) \/ UpdateBackup(t) \/ UpdateAfterOk(t) \/ UpdateAfterErr(t)
  \/ UpdateStarted(t)
  \/ Booted /\ StatusBegin(t)
  \/ StatusProbe(t)

NextSeq == (\E t \in SeqTasks : SeqStep(t)) \/ Background

SpecSeq == Init /\ [][NextSeq]_vars

\* The embedded service with the supervisor at rest: download requests and
\* their background tasks, interleaved.
SupervisorAtRest ==
  /\ platform = "linux"
  /\ rec = NoRec /\ pidFile = NoPidFile
  /\ serverDir = NoDir /\ backupDir = NoDir /\ versionFile = 0
  /\ proc = [p \in Pids |-> NoProc] /\ nextPid = 1
  /\ task = [t \in Tasks |-> IdleTask] /\ rc = IdleRc /\ ops = 0

InitDl == SupervisorAtRest /\ ServiceAtRest /\ AppAtRest

NextDl ==
  \E s \in Slots :
    \/ \E named \in BOOLEAN, sha \in Checksums : DhRegister(s, named, sha)
    \/ DhReturn(s)
    \/ PdGet(s) \/ PdOpen(s) \/ PdChunk(s) \/ PdRecord(s) \/ PdFlush(s)
    \/ PdVerify(s) \/ PdComplete(s) \/ PdFail(s)

SpecDl == InitDl /\ [][NextDl]_vars

\* A step of a download that needs nothing from the remote server: the
\* runtime runs a task that is ready.
LocalStep(s) ==
  \/ DhReturn(s) \/ PdOpen(s) \/ PdRecord(s) \/ PdFlush(s)
  \/ PdVerify(s) \/ PdComplete(s) \/ PdFail(s)

\* The downloads under the runtime's scheduling: every ready task is
\* eventually run. send().await and stream.next().await complete when the
\* remote server answers, which nothing guarantees.
SpecDlFair == SpecDl /\ \A s \in Slots : WF_vars(LocalStep(s))

\* The embedded service's model registry: load, infer and status requests
\* served concurrently, two at a time.
InitEm == SupervisorAtRest /\ ServiceAtRest /\ AppAtRest

NextEm ==
  \E t \in Threads :
    \/ \E p \in ModelPaths : LoadBegin(t, p)
    \/ FirstNew(t) \/ FirstSet(t) \/ ReadPath(t)
    \/ ReplaceLock(t) \/ ReplaceNew(t) \/ Assign(t) \/ RecordModel(t)
    \/ InferBegin(t) \/ InferLock(t) \/ InferEnd(t)
    \/ StatusHandler(t)

SpecEm == InitEm /\ [][NextEm]_vars

\* The application's first uses of the embedded service, two at a time.
InitPm == SupervisorAtRest /\ ServiceAtRest /\ AppAtRest

NextPm ==
  \E c \in Callers :
    \/ EnsureBegin(c) \/ EnsureCheck(c) \/ EnsureSpawn(c)
    \/ EnsureStore(c) \/ ClientAndBaseUrl(c)

SpecPm == InitPm /\ [][NextPm]_vars

\* The version check as a function of its inputs: the remote answer, the
\* executable's presence and the stored version.
InitVer ==
  /\ SupervisorAtRest /\ ServiceAtRest /\ ManagerAtRest /\ InferAtRest
  /\ latest \in VersionStrings \cup {NoVersion}
  /\ install \in [exe : BOOLEAN, stored : VersionStrings \cup {NoVersion}]
  /\ verdict = IdleVerdict

NextVer == CheckUpdate

SpecVer == InitVer /\ [][NextVer]_vars

\* One inference over the configurations, prompt lengths and token
\* requests around the code's thresholds.
GpuLayerChoices ==
  {None, 0, GpuLayersForAcceleration - 1, GpuLayersForAcceleration}

PromptLengths == {0, 1, CpuPromptChars - 1, CpuPromptChars, CpuPromptChars + 1}

TokenRequests ==
  {None, 0, 1, CpuTokenCap, CpuTokenCap + 1, GpuTokenCap, GpuTokenCap + 1}

InitInf ==
  /\ SupervisorAtRest /\ ServiceAtRest /\ ManagerAtRest /\ VersionAtRest
  /\ \E g \in GpuLayerChoices, c \in {None, 2048}, p \in PromptLengths,
        m \in TokenRequests :
       inf = [IdleInfer EXCEPT !.pc = "start", !.gpu_layers = g,
                !.context_length = c, !.prompt = p, !.max_tokens = m]

NextInf == InferSession \/ InferToken \/ GenerationEnds

SpecInf == InitInf /\ [][NextInf]_vars

(* ================================================================ claims *)
UpdateReturned(t) == task[t].op = "update" /\ task[t].pc = "ret"

\* Fully extracted (as opposed to absent or half-extracted).
Complete(d) == d.kind \in {"full", "noexe"}

\* C1: when update returns and no filesystem operation of it failed, the
\* install directory holds the complete requested version if update reports
\* success, and what it held when update was called if update reports
\* failure.
C1_UpdateLeavesNewOrPrevious ==
  \A t \in Tasks :
    (UpdateReturned(t) /\ ~task[t].fsf) =>
      /\ task[t].res = "ok" =>
           (Complete(serverDir) /\ serverDir.ver = task[t].ver)
      /\ task[t].res # "ok" => serverDir = task[t].pre

\* C2: an install directory existed when update was called, the
\* download+install step failed and no filesystem operation failed: update
\* returns failure and the install directory has the content it had at the call.
C2_PreviousInstallUnchanged ==
  \A t \in Tasks :
    (/\ UpdateReturned(t)
     /\ task[t].pre.kind # "absent"
     /\ task[t].dl \notin {"ok", "none"}
     /\ ~task[t].fsf)
    => (task[t].res = "err_install" /\ serverDir = task[t].pre
        /\ backupDir = NoDir)

C2_Witness ==
  \E t \in Tasks :
    /\ UpdateReturned(t)
    /\ task[t].pre = DirOf("full", 1)
    /\ task[t].ver = 2
    /\ task[t].dl = "err_extract"
    /\ task[t].res = "err_install"
    /\ ~task[t].fsf
    /\ serverDir = DirOf("full", 1)

MidOperation(t) ==
  /\ task[t].op \in {"start", "update"}
  /\ task[t].pc \notin {"idle", "ret"}
  /\ ~(task[t].op = "start" /\ task[t].pc = "st_stop")

C4_MutualExclusion ==
  \A t, u \in Tasks : t # u => ~(MidOperation(t) /\ MidOperation(u))

\* C5: a stop invoked right after a start that returned Ok leaves no PID
\* file and no in-memory record.
C5_StartThenStopLeavesNothing ==
  \A t \in Tasks :
    (task[t].op = "stop" /\ task[t].pc = "ret" /\ task[t].mark)
    => (rec = NoRec /\ pidFile = NoPidFile)

C5_Witness ==
  \E t \in Tasks :
    /\ task[t].op = "stop" /\ task[t].pc = "ret" /\ task[t].mark
    /\ task[t].killed = "dead"
    /\ rec = NoRec /\ pidFile = NoPidFile

\* C6: every execution of stop's body that finds a record clears the record
\* and removes the PID file, whatever the kill attempts and the liveness
\* check returned.
StopBodyRuns(t) ==
  /\ task[t].pc \in {"sp_run", "st_stop", "up_stop"}
  /\ task'[t].pc # task[t].pc

C6_StopAlwaysClears ==
  [][\A t \in Tasks :
       (StopBodyRuns(t) /\ rec.pid # 0) => (rec' = NoRec /\ pidFile' = NoPidFile)]_vars

C6_Witness ==
  \E t \in Tasks :
    /\ task[t].op = "stop" /\ task[t].pc = "ret"
    /\ task[t].killed = "alive"
    /\ \E p \in Pids : proc[p].alive /\ proc[p].kind = "sidecar"
    /\ rec = NoRec /\ pidFile = NoPidFile

\* C7: the startup reconnection that finds a PID file naming a live process
\* whose endpoint answers the probe installs a record for the file's pid,
\* host and port with no owning handle, spawns nothing and leaves the PID
\* file in place.
C7_ReconnectInstallsOrphan ==
  (rc.out = "reconnected" /\ ops = 0) =>
    /\ pidFile.pid # 0
    /\ rec = [pid |-> pidFile.pid, cfg |-> pidFile.cfg, owned |-> FALSE]
    /\ nextPid = 2
    /\ \A p \in Pids : p # pidFile.pid => proc[p] = NoProc

C7_Witness ==
  /\ rc.out = "reconnected" /\ ops = 0
  /\ pidFile = [pid |-> 1, cfg |-> AltCfg]
  /\ rec = [pid |-> 1, cfg |-> AltCfg, owned |-> FALSE]
  /\ proc[1].alive

\* C8: the startup reconnection that finds the PID file's pid dead, or alive
\* with an endpoint that fails the probe, deletes the PID file and creates
\* no record.
C8_ReconnectDropsStale ==
  (rc.out \in {"dead", "unresponsive"} /\ ops = 0) =>
    (pidFile = NoPidFile /\ rec = NoRec)

C8_Witness ==
  /\ rc.out = "unresponsive" /\ ops = 0
  /\ proc[rc.pid].alive
  /\ pidFile = NoPidFile /\ rec = NoRec

\* C9: a status invoked after stop has returned, with no start, update or
\* reconnection in between, never reports running.
C9_NotRunningAfterStop ==
  \A t \in Tasks :
    (task[t].op = "status" /\ task[t].pc = "ret" /\ task[t].mark)
    => task[t].res \in {"not_downloaded", "downloaded"}

\* C10: a server was running at the call, the backup was taken, update
\* failed (install failure or start failure of the new binary) and no
\* filesystem operation failed: by the time update returns the previous
\* install is back in place and a start of it has been made.
C10_RestoreAndRestartOnFailure ==
  \A t \in Tasks :
    (/\ UpdateReturned(t)
     /\ task[t].was
     /\ task[t].bak
     /\ task[t].res # "ok"
     /\ ~task[t].fsf)
    => /\ serverDir = task[t].pre
       /\ task[t].retry
       /\ task[t].rres # "none"

C10_Witness ==
  \E t \in Tasks :
    /\ UpdateReturned(t)
    /\ task[t].was /\ task[t].bak
    /\ task[t].dl = "err_download"
    /\ task[t].res = "err_install"
    /\ task[t].retry /\ task[t].rres = "ok"
    /\ serverDir = task[t].pre
    /\ proc[rec.pid].alive /\ proc[rec.pid].ver = task[t].pre.ver

\* The step of update an invocation is at: 1 stop, 2 backup, 3 download and
\* install, 4 start of the new binary, 5 rollback restart, 6 returned.
UpdateStage(r) ==
  IF r.pc = "up_stop" THEN 1
  ELSE IF r.pc = "up_backup" THEN 2
  ELSE IF r.pc \in {"dl_get", "dl_extract", "dl_finish", "up_after"} THEN 3
  ELSE IF r.pc = "ret" THEN 6
  ELSE IF r.phase = "old" THEN 5
  ELSE 4

\* C11: every step of an update moves forward through stop, backup,
\* download+install, start: the backup step runs with the record already
\* cleared by the stop, the download begins with the previous install already
\* renamed to the backup, and the start of the new binary begins with the
\* install finished.
C11_UpdateStepOrder ==
  [][\A t \in Tasks :
       (task[t].op = "update" /\ task[t].pc # "ret" /\ task'[t] # task[t]) =>
         /\ UpdateStage(task'[t]) >= UpdateStage(task[t])
         /\ task[t].pc = "up_stop" => task'[t].pc = "up_backup"
         /\ task[t].pc = "up_backup" => rec = NoRec
         /\ task[t].pc = "dl_get" =>
              (serverDir = NoDir /\ task[t].bak = (task[t].pre # NoDir)
               /\ task[t].bak => backupDir = task[t].pre)
         /\ (task[t].pc = "st_stop" /\ task[t].phase = "new") =>
              (task[t].dl = "ok" /\ Complete(serverDir)
               /\ serverDir.ver = task[t].ver)]_vars

C11_Witness ==
  \E t \in Tasks :
    /\ UpdateReturned(t)
    /\ task[t].was /\ task[t].bak
    /\ task[t].dl = "ok" /\ task[t].sres = "ok" /\ task[t].res = "ok"
    /\ serverDir = DirOf("full", task[t].ver)
    /\ proc[rec.pid].alive /\ proc[rec.pid].ver = task[t].ver

\* C12: version.json changes only in the step that ends a successful install
\* (extraction complete and, on POSIX builds, the binary found and marked
\* executable), and then to the version just installed; a step that ends an
\* install attempt in failure leaves it unchanged.
C12_VersionOnlyAfterInstall ==
  [][versionFile' # versionFile =>
       \E t \in Tasks :
         /\ task[t].pc = "dl_finish"
         /\ task'[t].dl = "ok"
         /\ versionFile' = task[t].ver
         /\ Complete(serverDir') /\ serverDir'.ver = task[t].ver
         /\ platform # "windows" => serverDir'.kind = "full"]_vars

C12_Witness ==
  \E t \in Tasks :
    /\ task[t].op = "download" /\ task[t].pc = "ret" /\ task[t].res = "ok"
    /\ task[t].ver = 2
    /\ versionFile = 2
    /\ serverDir = DirOf("full", 2)

\* How far along Pending -> InProgress -> {Completed | Failed} a status is.
StatusRank(st) ==
  IF st = "pending" THEN 0 ELSE IF st = "in_progress" THEN 1 ELSE 2

\* The registry entry of the request in slot s.
RecordOf(s) ==
  downloads[CHOOSE k \in DOMAIN downloads : downloads[k].id = dl[s].id]

\* C13: in every step the registry keeps its entries and their ids, and each
\* entry's status stays or moves forward: never backwards, never out of
\* Completed or Failed, and to Completed from InProgress only.
C13_StatusMonotonic ==
  [][/\ Len(downloads') >= Len(downloads)
     /\ \A k \in DOMAIN downloads :
          /\ downloads'[k].id = downloads[k].id
          /\ StatusRank(downloads'[k].status) >= StatusRank(downloads[k].status)
          /\ downloads[k].status \in {"completed", "failed"} =>
               downloads'[k].status = downloads[k].status
          /\ (downloads'[k].status = "completed"
              /\ downloads[k].status # "completed") =>
               downloads[k].status = "in_progress"]_vars

C13_Witness ==
  /\ Len(downloads) >= 2
  /\ downloads[1].status = "completed"
  /\ downloads[2].status = "failed"
  /\ downloads[2].bytes_downloaded > 0
  /\ dl[1].pc = "done" /\ dl[2].pc = "done"

\* C14: an entry is created with bytes_downloaded 0, the counter never
\* decreases, and each time the chunk loop has recorded a chunk the counter
\* equals the number of bytes that download has written to its file.
C14_BytesCountWritten ==
  [][/\ \A k \in DOMAIN downloads' :
          k \notin DOMAIN downloads => downloads'[k].bytes_downloaded = 0
     /\ \A k \in DOMAIN downloads :
          downloads'[k].bytes_downloaded >= downloads[k].bytes_downloaded
     /\ \A s \in Slots :
          (dl[s].pc = "record" /\ dl'[s].pc = "stream") =>
            \E k \in DOMAIN downloads' :
              /\ downloads'[k].id = dl[s].id
              /\ downloads'[k].bytes_downloaded = dl'[s].written]_vars

C14_Witness ==
  \E s \in Slots :
    /\ dl[s].pc = "record"
    /\ dl[s].written = 2
    /\ RecordOf(s).bytes_downloaded = 1

\* C15: once verify_sha256 has found the digests to differ the entry is
\* never Completed, and when the task has ended the entry is Failed with an
\* error naming the supplied digest and the digest found, and the target file
\* still exists.
C15_MismatchFails ==
  \A s \in Slots :
    dl[s].err.kind = "mismatch" =>
      /\ RecordOf(s).status # "completed"
      /\ dl[s].pc = "done" =>
           /\ RecordOf(s).status = "failed"
           /\ RecordOf(s).error.kind = "mismatch"
           /\ RecordOf(s).error.expected = dl[s].sha
           /\ RecordOf(s).error.actual # NoDigest
           /\ RecordOf(s).error.actual # ToLowercase(dl[s].sha)
           /\ files[dl[s].target].exists

C15_Witness ==
  \E s \in Slots :
    /\ dl[s].pc = "done"
    /\ dl[s].sha = [hex |-> "d_else", upper |-> FALSE]
    /\ RecordOf(s).status = "failed"
    /\ RecordOf(s).error =
         [kind |-> "mismatch", expected |-> dl[s].sha,
          actual |-> [hex |-> "d_body", upper |-> FALSE]]
    /\ files[dl[s].target] = [exists |-> TRUE, data |-> Body]

\* C16: when a download task has ended in an error, its entry is Failed and
\* stores that error, the file it created still exists, and (no other
\* download writing the same path) holds exactly the bytes the task wrote.
C16_FailureRecorded ==
  \A s \in Slots :
    (dl[s].pc = "done" /\ dl[s].err # NoErr) =>
      /\ RecordOf(s).status = "failed"
      /\ RecordOf(s).error = dl[s].err
      /\ dl[s].opened => files[dl[s].target].exists
      /\ (dl[s].opened
          /\ \A u \in Slots \ {s} :
               ~dl[u].opened \/ dl[u].target # dl[s].target) =>
           Len(files[dl[s].target].data) = dl[s].written

C16_Witness ==
  \E s \in Slots :
    /\ dl[s].pc = "done"
    /\ dl[s].err.kind = "write"
    /\ dl[s].written = 1
    /\ RecordOf(s).status = "failed"
    /\ RecordOf(s).error.kind = "write"
    /\ files[dl[s].target] = [exists |-> TRUE, data |-> <<1>>]

\* C17: in the step that returns a request's id the background task has not
\* made its request nor touched the disk, the registry already holds an
\* entry with that id, and no other request or entry has the same id.
C17_ReturnsAfterRegistering ==
  [][\A s \in Slots :
       (dl'[s].returned /\ ~dl[s].returned) =>
         /\ dl'[s].pc = "get" /\ ~dl'[s].opened /\ files' = files
         /\ \E k \in DOMAIN downloads' :
              /\ downloads'[k].id = dl'[s].id
              /\ downloads'[k].status
                   \in {"pending", "in_progress", "completed", "failed"}
         /\ \A u \in Slots \ {s} : dl'[u].returned => dl'[u].id # dl'[s].id
         /\ \A j, k \in DOMAIN downloads' :
              j # k => downloads'[j].id # downloads'[k].id]_vars

C17_Witness ==
  /\ dl[1].returned /\ dl[2].returned
  /\ Len(downloads) >= 2
  /\ downloads[1].id # downloads[2].id
  /\ downloads[1].status = "in_progress"
  /\ downloads[2].status = "pending"

\* An engine is being constructed by ensure_model, or is constructed and
\* about to replace the old one.
Constructing(t) == thr[t].pc \in {"first_new", "replace_new", "assign"}

\* No load request is between its arrival and its response.
NoLoadInFlight == \A t \in Threads : thr[t].op = "load" => thr[t].pc = "idle"


\* C18: no inference runs while ensure_model constructs or replaces an
\* engine.
C18_InferExcludesLoad ==
  \A t, u \in Threads : ~(thr[t].pc = "inferring" /\ Constructing(u))

\* C19: at no time are two inferences inside the engine.
C19_InferencesSerialized ==
  \A t, u \in Threads :
    (thr[t].pc = "inferring" /\ thr[u].pc = "inferring") => t = u

C19_Witness ==
  \E t, u \in Threads :
    /\ thr[t].op = "infer" /\ thr[t].pc = "inferring" /\ lockBy = t
    /\ thr[u].op = "infer" /\ thr[u].pc = "infer_lock"

\* C20: when a load with a different path has constructed the new engine
\* the old one is already dropped: the new engine is the only one alive.
C20_OldDroppedBeforeNew ==
  \A t \in Threads :
    (thr[t].op = "load" /\ thr[t].pc = "assign") => engines = {thr[t].eng}

\* C21: a load of the path that is already loaded reloads nothing: begun
\* with the cell set it goes straight to the comparison, and a comparison
\* that finds the paths equal constructs no engine and leaves the engine in
\* the cell as it is.
C21_SamePathNoReload ==
  [][\A t \in Threads :
       /\ (thr[t].pc = "idle" /\ thr'[t].op = "load" /\ thr'[t].pc # "idle"
             /\ cell.set) => thr'[t].pc = "read_path"
       /\ (thr[t].op = "load" /\ thr[t].pc = "read_path"
             /\ cell.path = thr[t].path /\ thr'[t] # thr[t])
            => /\ thr'[t].pc = "record"
               /\ engines' = engines /\ cell' = cell
               /\ thr'[t].eng = thr[t].eng]_vars

C21_Witness ==
  \E t \in Threads :
    /\ thr[t].op = "load" /\ thr[t].pc = "record" /\ thr[t].eng = 0
    /\ cell.set /\ cell.path = thr[t].path /\ cell.engine # thr[t].call
    /\ engines = {cell.engine}

\* C22: whenever no load request is in flight the recorded path is the path
\* of the engine in the cell.
C22_RecordedIsLoaded == NoLoadInFlight => modelState = cell.path

\* C23: an inference request arriving with no model recorded is answered
\* 400 without touching the engine, and one that is let through finds the
\* cell set.
C23_InferNeedsModel ==
  [][\A t \in Threads :
       (thr[t].pc = "idle" /\ thr'[t].op = "infer" /\ thr'[t] # thr[t])
          => IF modelState = 0
               THEN /\ thr'[t].pc = "idle" /\ thr'[t].res = "bad_request"
                    /\ lockBy' = lockBy /\ cell' = cell /\ engines' = engines
               ELSE cell.set /\ thr'[t].pc = "infer_lock"]_vars

C23_Witness ==
  \E t, u \in Threads :
    /\ thr[t].op = "infer" /\ thr[t].res = "bad_request" /\ thr[t].pc = "idle"
    /\ thr[u].op = "infer" /\ thr[u].pc = "inferring" /\ modelState # 0

\* C24: a status request is answered whatever the engine is doing: it is
\* never blocked, also not while a load or an inference holds the engine's
\* lock.
C24_StatusNeverWaits ==
  \A t \in Threads : thr[t].pc = "idle" => ENABLED StatusHandler(t)

C24_Witness ==
  \E t, u \in Threads :
    /\ thr[t].op = "status" /\ thr[t].pc = "idle" /\ thr[t].during = u
    /\ lockBy = u /\ thr[u].pc \in {"inferring", "replace_new"}

\* C25: the embedded service is started once: a service is spawned only
\* when no service spawned earlier is still running, so of concurrent
\* first-use calls only one spawns.
C25_SpawnedOnce == [][spawns' > spawns => services = {}]_vars

\* a's (major, minor, patch) is greater than b's, in lexicographic order.
TupleGreater(a, b) ==
  \/ a[1] > b[1]
  \/ a[1] = b[1] /\ a[2] > b[2]
  \/ a[1] = b[1] /\ a[2] = b[2] /\ a[3] > b[3]

\* Both strings parse and a's tuple is greater than b's.
Newer(a, b) ==
  /\ parse_version(a) # <<>> /\ parse_version(b) # <<>>
  /\ TupleGreater(parse_version(a), parse_version(b))

\* C27: the version check reports an update exactly when a remote version
\* exists and it is greater than the stored version or no version is
\* stored.
C27_UpdateWhenNewerOrUnrecorded ==
  verdict.pc = "done" =>
    (verdict.update_available <=>
       /\ latest # NoVersion
       /\ install.stored = NoVersion \/ Newer(latest, install.stored))

\* C28: compare_versions(a, b) answers Some(true) exactly when both parse
\* and a's tuple is greater, Some(false) exactly when both parse and a's
\* tuple is less or equal, and None exactly when one of them does not parse.
C28_CompareIsTupleOrder ==
  (verdict.pc = "done" /\ verdict.compared # "not called") =>
    LET a == verdict.latest_version
        b == verdict.current_version
        both == parse_version(a) # <<>> /\ parse_version(b) # <<>>
    IN  /\ verdict.compared = "Some(true)" <=> Newer(a, b)
        /\ verdict.compared = "Some(false)" <=> (both /\ ~Newer(a, b))
        /\ verdict.compared = "None" <=> ~both

\* 2.10.2 against 2.2.10: newer by the minor number, as numbers.
C28_Witness ==
  /\ verdict.pc = "done" /\ verdict.compared = "Some(true)"
  /\ verdict.latest_version = <<"2", ".", "1", "0", ".", "2">>
  /\ verdict.current_version = <<"2", ".", "2", ".", "1", "0">>

\* C26: status answers not_downloaded exactly when no candidate path
\* exists; otherwise it probes the configured endpoint (the record's, or
\* 127.0.0.1:8000 without a record) and answers running, without an error,
\* when a server there returned a success status, and downloaded with an
\* error in every other case.
C26_StatusFollowsProbe ==
  [][\A t \in SeqTasks :
       /\ (ops' # ops /\ task'[t].op = "status")
            => IF StatusExeExists(platform, serverDir)
                 THEN /\ task'[t].pc = "sq_probe"
                      /\ task'[t].cfg = IF rec = NoRec THEN DefaultCfg ELSE rec.cfg
                 ELSE /\ task'[t].pc = "ret"
                      /\ task'[t].res = "not_downloaded"
                      /\ task'[t].error = "none"
       /\ (task[t].pc = "sq_probe" /\ task'[t].pc = "ret")
            => \/ /\ task'[t].res = "running" /\ task'[t].error = "none"
                  /\ Listening(task[t].cfg)
               \/ task'[t].res = "downloaded" /\ task'[t].error # "none"]_vars

C26_Witness ==
  \E t \in SeqTasks :
    /\ task[t].op = "status" /\ task[t].pc = "ret"
    /\ task[t].res = "downloaded" /\ task[t].error # "none"
    /\ rec # NoRec /\ task[t].cfg = rec.cfg /\ rec.cfg = AltCfg

\* C29: stop without a record is a no-op that reports success: no process
\* is killed, the record stays absent, the PID file and the install stay as
\* they are.
C29_StopWithoutRecordIsNoOp ==
  [][\A t \in SeqTasks :
       (task[t].op = "stop" /\ task[t].pc = "sp_run" /\ rec = NoRec
          /\ task'[t].pc = "ret")
         => /\ task'[t].res = "ok"
            /\ rec' = NoRec /\ proc' = proc /\ pidFile' = pidFile
            /\ serverDir' = serverDir /\ backupDir' = backupDir
            /\ versionFile' = versionFile]_vars

\* A stop that found no record has returned, as the second command of the
\* run, and a process is alive that it left alone.
C29_Witness ==
  \E t \in SeqTasks :
    /\ task[t].op = "stop" /\ task[t].pc = "ret" /\ task[t].killed = "norec"
    /\ ops = 2 /\ rec = NoRec
    /\ \E p \in Pids : proc[p].alive

\* C30: start fails with NotFound exactly when none of the candidate paths
\* that status looks at exists, so an install that status reports as
\* downloaded or running can be started without NotFound.
C30_NotFoundIffNoCandidate ==
  [][\A t \in SeqTasks :
       (task[t].op = "start" /\ task[t].pc = "st_spawn"
          /\ task'[t].pc # "st_spawn")
         => ((task'[t].pc = "ret" /\ task'[t].res = "not_found")
               <=> ~StatusExeExists(platform, serverDir))]_vars

\* The inference got as far as handing a prompt to the session, or
\* panicked on the way.
PromptStage == inf.pc \in {"generate", "done"}

\* C31: without acceleration the session gets the prompt cut to at most 400
\* characters and a context of 512; with acceleration it gets the whole
\* prompt and the configured context length (default 4096); for every
\* prompt length.
C31_PromptAndContextGated ==
  PromptStage =>
    IF Accelerated(inf)
      THEN /\ inf.fed = inf.prompt
           /\ inf.n_ctx = IF inf.context_length = None
                             THEN DefaultContextLength ELSE inf.context_length
      ELSE /\ inf.fed = Min(inf.prompt, CpuPromptChars)
           /\ inf.n_ctx = CpuContextLength

\* C32: generation that has begun ends with a success result, and the
\* reported completion_tokens is at most min(requested max_tokens, cap),
\* cap being 150 with acceleration and 50 without.
C32_GenerationWithinBudget ==
  (inf.pc = "done" /\ inf.budget # None) =>
    /\ inf.res = "ok"
    /\ inf.decoded_tokens <=
         LET cap == IF Accelerated(inf) THEN GpuTokenCap ELSE CpuTokenCap
         IN  IF inf.max_tokens = None THEN cap ELSE Min(inf.max_tokens, cap)

\* C33: every registered download eventually reaches Completed or Failed,
\* also when the remote server never answers or stops sending.
C33_DownloadsTerminate ==
  \A s \in Slots :
    (dl[s].pc = "registered") ~>
      (\E i \in 1..Len(downloads) :
         /\ downloads[i].id = dl[s].id
         /\ downloads[i].status \in {"completed", "failed"})

\* C34: after update returns, the persisted version is the version of the
\* binary in the install directory: when update failed and rolled back to
\* the previous install, the persisted version is not the requested one.
C34_VersionMatchesInstall ==
  \A t \in SeqTasks :
    (UpdateReturned(t) /\ task[t].res # "ok" /\ serverDir.kind = "full"
       /\ serverDir = task[t].pre /\ serverDir.ver # task[t].ver)
      => versionFile # task[t].ver

\* No command is part way and the reconnection task has finished.
Quiescent ==
  /\ rc.pc = "done"
  /\ \A t \in Tasks : task[t].pc \in {"idle", "ret"}

\* A sidecar this run's supervisor spawned (the orphan of an earlier run,
\* if any, has pid 1) that is alive.
LiveSpawned(p) ==
  /\ proc[p].alive /\ proc[p].kind = "sidecar"
  /\ p >= (IF rc.out = "nofile" THEN 1 ELSE 2)

\* C35: after any interleaving of start, stop and update, every live
\* sidecar the supervisor spawned is the one the record names, so there is
\* at most one and a stop reaches it.
C35_LiveSidecarIsRecorded ==
  Quiescent => \A p \in Pids : LiveSpawned(p) => rec.pid = p

\* The step on which the start_llm_server call made by `t` (the command
\* itself, or update_llm_server's start of the new or of the restored
\* binary) returns an error.
StartFails(t) ==
  \/ /\ task[t].sres = "none" /\ task'[t].sres \notin {"none", "ok"}
  \/ /\ task[t].rres = "none" /\ task'[t].rres \notin {"none", "ok"}

\* C36: when start returns an error, then on return there is no in-memory
\* record, the PID file was not written by that call, and no process that
\* call spawned is alive.
C36_FailedStartLeavesNothing ==
  [][\A t \in SeqTasks :
       StartFails(t) =>
         /\ rec' = NoRec
         /\ task'[t].child # 0 =>
              /\ pidFile'.pid # task'[t].child
              /\ ~proc'[task'[t].child].alive]_vars

\* C37: a record that start stored with its owning Child handle is never
\* replaced by the startup reconnection: a step of the reconnection task
\* leaves such a record as it is.
C37_ReconnectKeepsOwnedRecord ==
  [][(rec.owned /\ rc' # rc) => rec' = rec]_vars

\* C38: whenever no supervisor operation is in progress, a record exists
\* only if the PID file exists, and the two name the same pid, host and
\* port.
C38_RecordAgreesWithPidFile ==
  (Quiescent /\ rec.pid # 0) =>
    /\ pidFile.pid = rec.pid
    /\ pidFile.cfg = rec.cfg

\* C39: a download record becomes Completed only when the file at its
\* destination holds exactly the bytes that download streamed (the whole
\* body), also when two downloads were given the same target name.
C39_CompletedFileIsBody ==
  [][\A i \in DOMAIN downloads :
       (downloads[i].status # "completed" /\ downloads'[i].status = "completed")
         => files'[downloads[i].target_path].data = Body]_vars

\* The step on which the load request of thread t returns an error while
\* the cell holds an engine.
LoadFails(t) ==
  /\ cell.set
  /\ thr[t].op = "load" /\ thr[t].pc # "idle"
  /\ thr'[t].pc = "idle" /\ thr'[t].res = "err"

\* C40: a load that fails while a model is loaded changes nothing: the
\* cell holds the engine and path it held, that engine still exists and
\* its lock is not left held by the failed load, and the recorded model
\* (what status reports and what admits inference) is what it was. The
\* recorded model, once set, is never unset.
C40_FailedLoadChangesNothing ==
  [][/\ modelState # 0 => modelState' # 0
     /\ \A t \in Threads :
          LoadFails(t) =>
            /\ cell' = cell /\ cell.engine \in engines'
            /\ modelState' = modelState
            /\ lockBy' # t]_vars

\* A model was loaded and recorded; a load of another path took the
\* engine's lock (a status request saw it held, and reported ready), failed
\* to construct its engine and returned an error: the cell still holds the
\* recorded path and its engine.
C40_Witness ==
  \E t, u \in Threads :
    /\ thr[t].op = "load" /\ thr[t].pc = "idle" /\ thr[t].res = "err"
    /\ thr[t].path # cell.path
    /\ thr[u].op = "status" /\ thr[u].res = "ready" /\ thr[u].during = t
    /\ thr[u].seen = cell.path /\ cell.engine \in engines /\ lockBy = 0

====
